---- MODULE Spec2Model ----
(***************************************************************************)
(* Data synchronization and replay subsystem of the chart component:       *)
(*   - ChartDataLoader (the Data Bridge)   src/src/ChartProComponent.tsx   *)
(*   - ReplayController (the Replay Clock) src/src/ReplayController.ts     *)
(*   - the component wiring between them   src/src/ChartProComponent.tsx   *)
(* Candles are represented by their timestamps (ms).  Promises in flight   *)
(* and pending timeouts are explicit state; the event loop picks any of    *)
(* them to run next.                                                       *)
(***************************************************************************)
EXTENDS Integers, Sequences, FiniteSets, TLC

\* ------------------------------------------------------------------ bounds
\* number of candle slots the modelled market has
MaxSlot == 2
\* promises (provider fetches) simultaneously in flight
MaxFetches == 2
\* of these, fetches issued by startReplay / date change / period change
MaxSessionFetches == 1
\* pending setTimeout callbacks of one kind
MaxTimers == 1
\* candles in the batch a backward fetch resolves with
MaxBatchLen == 2
\* distinct callbacks the host passes to subscribeBar
MaxCallbacks == 2
\* largest span of the periods the interval mapping is evaluated on
MaxSpan == 36
\* base candles in a response that is aggregated
MaxBaseCandles == 3
\* largest multiplier the aggregation is evaluated with
MaxMultiplier == 3
\* largest candle count the alignment is evaluated with
MaxCount == 5
\* 1m candles the exchange publishes in a streaming session
MaxMinutes == 4
\* getHistoryKLineData requests that can await their response at a time
MaxHistory == 1
\* sockets of the MarketDataService that have not closed yet, at a time
MaxSockets == 2
\* the other candleFetchLimit the settings modal is tried with
SmallFetchLimit == 200

\* ------------------------------------------------------- program constants
MinuteMs == 60000
HourMs == 3600000
DayMs == 86400000
DefaultFetchLimit == 500
BackwardCount == 2
BaseIntervalMs == 1000

\* MarketDataService.MAX_RECONNECT_ATTEMPTS
MAX_RECONNECT_ATTEMPTS == 10

\* first candle of the modelled market (an hour boundary, 100 hours in)
BaseTime == 100 * HourMs

Times == {BaseTime + i * MinuteMs : i \in 0..MaxSlot}

Periods == {[type |-> "minute", span |-> 1], [type |-> "hour", span |-> 1]}

\* props.period of the modelled chart
DefaultPeriod == [type |-> "minute", span |-> 1]

\* the periods the period bar is driven with where the live feed is modelled
FeedPeriods == Periods \cup {[type |-> "minute", span |-> 2]}

Symbols == {"BTCUSDT", "ETHUSDT"}

\* props.symbol of the modelled chart
DefaultSymbol == "BTCUSDT"

Callbacks == 1..MaxCallbacks

\* the limits setFetchLimit is called with
FetchLimits == {SmallFetchLimit, DefaultFetchLimit}

\* the ReplaySpeed the speed menu is driven with, in halves (2x; 1x is the
\* default every session starts with)
Speeds == {4}

\* ----------------------------------------------------------------- helpers
Min(a, b) == IF a < b THEN a ELSE b
Max(a, b) == IF a > b THEN a ELSE b

RECURSIVE SortedSeq(_)
\* the ascending sequence of a set of timestamps
SortedSeq(S) ==
  IF S = {} THEN <<>>
  ELSE LET m == CHOOSE x \in S : \A y \in S : x <= y
       IN  <<m>> \o SortedSeq(S \ {m})

Range(s) == {s[i] : i \in 1..Len(s)}

RemoveAt(s, i) == SubSeq(s, 1, i-1) \o SubSeq(s, i+1, Len(s))

RECURSIVE sortByTimestamp(_)
\* Array.prototype.sort((a, b) => a.timestamp - b.timestamp): equal stamps
\* are all kept
sortByTimestamp(s) ==
  IF s = <<>> THEN <<>>
  ELSE LET i == CHOOSE j \in 1..Len(s) : \A k \in 1..Len(s) : s[j] <= s[k]
       IN  <<s[i]>> \o sortByTimestamp(RemoveAt(s, i))

\* Array.prototype.slice(0, end) for end >= 0
SliceTo(s, end) == SubSeq(s, 1, Min(end, Len(s)))

\* Array.prototype.findIndex(d => d.timestamp >= ts), 0-based, -1 if none
FindIndexGE(s, ts) ==
  IF \E i \in 1..Len(s) : s[i] >= ts
  THEN (CHOOSE i \in 1..Len(s) : s[i] >= ts /\ \A j \in 1..(i-1) : s[j] < ts) - 1
  ELSE -1

StrictlyAscending(s) == \A i \in 1..(Len(s) - 1) : s[i] < s[i+1]

\* the batches a session fetch (startReplay, date or period change, live
\* load) resolves with: ascending, no duplicate stamps
Batches == {SortedSeq(S) : S \in SUBSET Times}

\* the batches a backward fetch can resolve with: any candles in any order
OlderBatches == UNION {[1..n -> Times] : n \in 0..MaxBatchLen}

\* ----------------------------------------------------------- pure functions
UnitMs(type) ==
  CASE type = "minute" -> MinuteMs
    [] type = "hour" -> HourMs
    [] type = "day" -> DayMs

\* ChartDataLoader.adjustFromTo: <<from, to>>. The minute / hour / day
\* branches, and a type the switch has no case for (second), which leaves
\* from = to = toTimestamp; the calendar branches (week, month, year) are
\* not evaluated here
adjustFromTo(p, toTimestamp, count) ==
  IF p.type \in {"minute", "hour", "day"}
  THEN LET to == toTimestamp - (toTimestamp % UnitMs(p.type))
       IN  <<to - count * p.span * UnitMs(p.type), to>>
  ELSE <<toTimestamp, toTimestamp>>

\* faulty variant: the upper clamp forgets the prepended candles
updateReplayIndex_noOffset(index, offset, len) ==
  Max(0, Min(index - offset, len - 1))

\* faulty variant: the lower clamp is missing
updateReplayIndex_noLower(index, offset, len) ==
  Min(index - offset, len - offset - 1)

\* ChartDataLoader.updateReplayIndex: the new _replayIndex
updateReplayIndex(index, offset, len) ==
  Max(0, Min(index - offset, len - offset - 1))

\* faulty variant: a candle as old as the oldest one passes the filter
validOlderData_inclusive(olderData, oldestExisting) ==
  sortByTimestamp(SelectSeq(olderData, LAMBDA d : d <= oldestExisting))

\* olderData.filter(d => d.timestamp < oldestExisting), then sort ascending
validOlderData(olderData, oldestExisting) ==
  sortByTimestamp(SelectSeq(olderData, LAMBDA d : d < oldestExisting))

\* this._replayData = [...validOlderData, ...this._replayData]
prependData(valid, data) == valid \o data

\* faulty variant: counts the whole batch, not the candles kept
prependedOffset_unfiltered(offset, olderData, valid) == offset + Len(olderData)

\* this._historicalOffset += validOlderData.length
prependedOffset(offset, olderData, valid) == offset + Len(valid)

\* faulty variant: no upper clamp
goToIndexClamp_noUpper(index, totalCandles) == Max(0, index)

\* Math.max(0, Math.min(index, totalCandles - 1)) of ReplayController.goToIndex
goToIndexClamp(index, totalCandles) == Max(0, Min(index, totalCandles - 1))

\* faulty variant: off by one at the last candle
canAdvance_inclusive(currentIndex, totalCandles) == currentIndex < totalCandles

\* the guard of _advanceCandle / stepForward
canAdvance(currentIndex, totalCandles) == currentIndex < totalCandles - 1

\* faulty variant: index 0 may be stepped back from
canRetreat_inclusive(currentIndex) == currentIndex >= 0

\* the guard of stepBackward
canRetreat(currentIndex) == currentIndex > 0

\* ReplayController._calculateInterval (speed in halves)
calculateInterval(speed) == (2 * BaseIntervalMs) \div speed

\* DEFAULT_REPLAY_STATE as the controller holds it; startTimestamp, which the
\* controller only stores, is left to the component's copy
DEFAULT_REPLAY_STATE ==
  [isActive |-> FALSE, isPaused |-> TRUE, speed |-> 2,
   currentIndex |-> 0, totalCandles |-> 0, fullData |-> <<>>]

\* the fields of the component's replayState signal that its handlers read
\* back: isPaused (shown by the replay bar), speed, startTimestamp, fullData
DEFAULT_COMPONENT_STATE ==
  [isPaused |-> TRUE, speed |-> 2, startTimestamp |-> 0, fullData |-> <<>>]

\* faulty variant: no fallback to 0 when no candle is at or after the anchor
startState_noFallback(timestamp, fullData) ==
  [isActive |-> TRUE, isPaused |-> TRUE, speed |-> 2,
   currentIndex |-> FindIndexGE(fullData, timestamp),
   totalCandles |-> Len(fullData), fullData |-> fullData]

\* the _state that ReplayController.start installs
startState(timestamp, fullData) ==
  [isActive |-> TRUE, isPaused |-> TRUE, speed |-> 2,
   currentIndex |-> IF FindIndexGE(fullData, timestamp) = -1 THEN 0
                    ELSE FindIndexGE(fullData, timestamp),
   totalCandles |-> Len(fullData), fullData |-> fullData]

\* SUPPORTED_INTERVALS of the Binance datafeed ({} for a type it does not list)
SUPPORTED_INTERVALS(type) ==
  CASE type = "second" -> {1}
    [] type = "minute" -> {1, 3, 5, 15, 30}
    [] type = "hour" -> {1, 2, 4, 6, 8, 12}
    [] type = "day" -> {1, 3}
    [] type = "week" -> {1}
    [] type = "month" -> {1}
    [] OTHER -> {}

\* an IntervalStrategy; interval is <<n, type>> for the string n + unit letter
Strategy(n, type, multiplier) ==
  [interval |-> <<n, type>>, multiplier |-> multiplier,
   baseSpan |-> n, baseType |-> type]

\* faulty variant: the smallest listed divisor is taken, not the largest
getStrategy_smallestDivisor(p) ==
  LET listed == SUPPORTED_INTERVALS(p.type)
      divisors == {b \in listed : p.span % b = 0}
  IN  IF p.span \in listed THEN Strategy(p.span, p.type, 1)
      ELSE IF divisors # {}
      THEN LET base == CHOOSE b \in divisors : \A c \in divisors : b <= c
           IN  Strategy(base, p.type, p.span \div base)
      ELSE Strategy(1, "minute", 1)

\* getStrategy: the native interval if Binance lists it, else the largest
\* listed divisor of the span in the same unit, else 1m
getStrategy(p) ==
  LET listed == SUPPORTED_INTERVALS(p.type)
      divisors == {b \in listed : p.span % b = 0}
  IN  IF p.span \in listed THEN Strategy(p.span, p.type, 1)
      ELSE IF divisors # {}
      THEN LET base == CHOOSE b \in divisors : \A c \in divisors : c <= b
           IN  Strategy(base, p.type, p.span \div base)
      ELSE Strategy(1, "minute", 1)

\* this._ws === null
NoWs == [open |-> FALSE, symbol |-> "", period |-> DefaultPeriod,
         strategy |-> Strategy(1, "minute", 1), callback |-> 0]

\* the socket subscribe opens: _currentSymbol, _currentStrategy and what
\* its onmessage handler closes over
NewWs(sym, p, callback) ==
  [open |-> TRUE, symbol |-> sym, period |-> p, strategy |-> getStrategy(p),
   callback |-> callback]

\* the condition under which subscribe closes the existing socket
mustReconnect(w, sym, p) ==
  w.open /\ (w.symbol # sym \/ w.strategy.interval # getStrategy(p).interval)

\* faulty variant: subscribeBar forwards whatever the suspension flag says
forwardsSubscribe_always(suspended) == TRUE

\* subscribeBar forwards to the datafeed unless subscriptions are suspended
forwardsSubscribe(suspended) == ~suspended

\* ------------------------------------------------------------------- state
VARIABLES
  \* symbol signal; BinanceDatafeed: _ws with _currentSymbol and
  \* _currentStrategy, and every socket that has not been closed
  symbol, ws, connections,
  \* observation of the last step: the subscribeBar call it made
  lastSub,
  \* observation of the last step: the pure function it evaluated, with its
  \* arguments and result
  evaluation,
  \* BinanceDatafeed._currentBaseCandles (a Map, in insertion order); the
  \* exchange's 1m candles published so far (the last one still open); the
  \* getHistoryKLineData requests awaiting their response
  currentBaseCandles, market, history,
  \* observations: the last onmessage (base candle, bucket length, callback
  \* argument), and the latest version of every base candle handed to the
  \* streaming aggregator since the socket was last unsubscribed
  delivered, received,
  \* MarketDataService: ws (a socket slot, 0 for null), the readyState of
  \* every socket it created, reconnectTimer (set or null) and whether its
  \* timeout is still pending, isConnecting, reconnectAttempts, subscribers,
  \* allTickersSubscribers
  tickerWs, socketState, reconnectTimer, timerPending, isConnecting,
  reconnectAttempts, subscribers, allTickersSubscribers,
  \* observation: disconnect() was called, and connect, subscribe or
  \* subscribeAll has not been called since
  disconnected,
  \* ChartDataLoader
  replayMode, replayData, replayIndex, historicalOffset, isLoadingBackward,
  suppressBackwardLoading, onBackwardDataLoaded, loading,
  subscriptionSuspended, fetchLimit,
  \* component signals
  loadingVisible, replayActive, period, replayState,
  \* ReplayController
  state, timerId,
  \* event loop: promises in flight, pending timeouts
  fetches, releaseTimers, suppressTimers,
  \* observations of the last step: the getBars call it completed, the
  \* callbacks the controller emitted in it, the promise it settled
  lastCall, emitted, settled

loaderVars == <<replayMode, replayData, replayIndex, historicalOffset,
                isLoadingBackward, suppressBackwardLoading,
                onBackwardDataLoaded, loading, subscriptionSuspended,
                fetchLimit>>
sigVars == <<loadingVisible, replayActive, period, replayState>>
ctlVars == <<state, timerId>>
loopVars == <<fetches, releaseTimers, suppressTimers>>
obsVars == <<lastCall, emitted, settled>>
feedVars == <<symbol, ws, connections, lastSub>>
streamVars == <<currentBaseCandles, market, history, delivered, received>>
tickerVars == <<tickerWs, socketState, reconnectTimer, timerPending,
                isConnecting, reconnectAttempts, subscribers,
                allTickersSubscribers, disconnected>>
vars == <<loaderVars, sigVars, ctlVars, loopVars, obsVars, feedVars,
          evaluation, streamVars, tickerVars>>

\* no pure function was evaluated on its own
NoEvaluation == [fn |-> "none"]

\* a step of the program proper: it leaves the evaluation record alone,
\* it is not one of the steps of the streaming aggregator (the exchange
\* publishing, getHistoryKLineData seeding the retained base candles), and
\* it makes no call on the MarketDataService
ProgramStep == UNCHANGED <<evaluation, streamVars, tickerVars>>

NoSub == [called |-> FALSE, forwarded |-> FALSE, symbol |-> "",
          period |-> DefaultPeriod, callback |-> 0]

\* a step that makes no call on the live feed
FeedIdle == lastSub' = NoSub /\ UNCHANGED <<symbol, ws, connections>>

\* BinanceDatafeed.unsubscribe
unsubscribe ==
  /\ ws' = NoWs
  /\ connections' = IF ws.open THEN connections \ {ws} ELSE connections
  /\ currentBaseCandles' = IF ws.open THEN <<>> ELSE currentBaseCandles
  /\ received' = IF ws.open THEN <<>> ELSE received
  /\ delivered' = <<>>
  /\ UNCHANGED <<evaluation, market, history, tickerVars>>

NoCall == [type |-> "none", replay |-> FALSE, settled |-> "none",
           cbCount |-> 0, batch |-> <<>>, hasMore |-> FALSE,
           rejected |-> FALSE, done |-> FALSE]

\* a promise settlement: the fetch kind, whether it failed (rejected or
\* empty), and for a backward fetch the candles prepended and filtered out,
\* whether the buffer it was issued for had been replaced or cleared, and
\* the count handed to onBackwardDataLoaded (<<>> if it was not invoked)
Settled(kind) ==
  [kind |-> kind, k |-> 0, dropped |-> 0, failed |-> FALSE, stale |-> FALSE,
   notified |-> <<>>]

NoSettle == Settled("none")

\* a pending provider fetch with what its continuation closes over; stale
\* records that setReplayData or clearReplayMode ran since a backward fetch
\* was issued (the code keeps no such mark)
Fetch(kind) == [kind |-> kind, from |-> 0, to |-> 0, oldest |-> 0,
                period |-> period, ts |-> 0, speed |-> 2, stale |-> FALSE]

\* the pending fetches once setReplayData or clearReplayMode has run
markStale(fs) ==
  [j \in 1..Len(fs) |-> IF fs[j].kind = "backward"
                        THEN [fs[j] EXCEPT !.stale = TRUE] ELSE fs[j]]

visibleEndIndex == historicalOffset + replayIndex

\* faulty variant: the slice stops one candle short
replaySlice_exclusive == SliceTo(replayData, visibleEndIndex)

\* the slice a replay forward request is served:
\* this._replayData.slice(0, visibleEndIndex + 1)
replaySlice == SliceTo(replayData, visibleEndIndex + 1)

InFlight(kind) == {i \in 1..Len(fetches) : fetches[i].kind = kind}

SessionFetches ==
  {i \in 1..Len(fetches) : fetches[i].kind \in {"start", "date", "period"}}

Init ==
  /\ replayMode = FALSE
  /\ replayData = <<>>
  /\ replayIndex = 0
  /\ historicalOffset = 0
  /\ isLoadingBackward = FALSE
  /\ suppressBackwardLoading = FALSE
  /\ onBackwardDataLoaded = FALSE
  /\ loading = FALSE
  /\ subscriptionSuspended = FALSE
  /\ fetchLimit = DefaultFetchLimit
  /\ loadingVisible = FALSE
  /\ replayActive = FALSE
  /\ period = DefaultPeriod
  /\ replayState = DEFAULT_COMPONENT_STATE
  /\ state = DEFAULT_REPLAY_STATE
  /\ timerId = 0
  /\ fetches = <<>>
  /\ releaseTimers = 0
  /\ suppressTimers = 0
  /\ lastCall = NoCall
  /\ emitted = <<>>
  /\ settled = NoSettle
  /\ symbol = DefaultSymbol
  /\ ws = NoWs
  /\ connections = {}
  /\ lastSub = NoSub
  /\ evaluation = NoEvaluation
  /\ currentBaseCandles = <<>>
  /\ market = <<>>
  /\ history = <<>>
  /\ delivered = <<>>
  /\ received = <<>>
  /\ tickerWs = 0
  /\ socketState = [i \in 1..MaxSockets |-> "free"]
  /\ reconnectTimer = FALSE
  /\ timerPending = FALSE
  /\ isConnecting = FALSE
  /\ reconnectAttempts = 0
  /\ subscribers = {}
  /\ allTickersSubscribers = {}
  /\ disconnected = FALSE

\* ---------------------------------------------------- component callbacks
\* a controller callback: its name, the index it carries, the operation
\* that emitted it
Ev(name, index, by) == [ev |-> name, index |-> index, by |-> by]

\* faulty variant: the slice leaves out the current candle
visibleData_exclusive(fullData, index) == SliceTo(fullData, index)

\* the slice a progress notification carries: fullData.slice(0, index + 1)
visibleData(fullData, index) == SliceTo(fullData, index + 1)

\* an onCandleProgress(index, visibleData) call emitted by an operation
Progress(index, fullData, by) ==
  [ev |-> "progress", index |-> index, by |-> by,
   data |-> visibleData(fullData, index)]

\* onCandleProgress(index): dataloader.updateReplayIndex,
\* setSuppressBackwardLoading(true), reload, setTimeout(un-suppress, 100);
\* rs is the component's replayState before the callback, offset/len the
\* loader's offset and buffer length at that moment
onCandleProgress(index, rs, offset, len) ==
  /\ replayState' = rs
  /\ replayIndex' = updateReplayIndex(index, offset, len)
  /\ suppressBackwardLoading' = TRUE
  /\ suppressTimers' = suppressTimers + 1

\* setReplayData + setOnBackwardDataLoaded + setReplayState + controller
\* setPeriod/start, as done by startReplay, handleReplayDateChange and the
\* period-change effect once their fetch resolved with candles
InstallReplay(fullData, timestamp, spd) ==
  /\ replayMode' = TRUE
  /\ replayData' = fullData
  /\ historicalOffset' = 0
  /\ isLoadingBackward' = FALSE
  /\ onBackwardDataLoaded' = TRUE
  /\ state' = startState(timestamp, fullData)
  /\ replayActive' = TRUE
  /\ onCandleProgress(startState(timestamp, fullData).currentIndex,
                      [isPaused |-> TRUE, speed |-> spd,
                       startTimestamp |-> timestamp, fullData |-> fullData],
                      0, Len(fullData))
  /\ emitted' = <<Ev("mode", 1, "start"),
                  Progress(startState(timestamp, fullData).currentIndex, fullData,
                           "start")>>
  /\ UNCHANGED timerId

\* --------------------------------------------------- replay bar operations
\* faulty variant: the timer is never armed
startTimer_never(timer, speed) == timer

\* ReplayController._startTimer: the new _timerId (the interval it runs at;
\* 0 stands for null)
startTimer(timer, speed) ==
  IF timer # 0 THEN timer ELSE calculateInterval(speed)

\* onPlay: replayController().play(); setReplayState(isPaused: false)
Play ==
  /\ replayActive
  /\ FeedIdle
  /\ ProgramStep
  /\ IF state.isActive /\ state.isPaused
     THEN /\ state' = [state EXCEPT !.isPaused = FALSE]
          /\ timerId' = startTimer(timerId, state.speed)
     ELSE UNCHANGED ctlVars
  /\ replayState' = [replayState EXCEPT !.isPaused = FALSE]
  /\ emitted' = <<>>
  /\ settled' = NoSettle
  /\ UNCHANGED <<loaderVars, loadingVisible, replayActive, period, loopVars>>
  /\ lastCall' = NoCall

\* onPause: replayController().pause(); setReplayState(isPaused: true)
Pause ==
  /\ replayActive
  /\ FeedIdle
  /\ ProgramStep
  /\ IF state.isActive /\ ~state.isPaused
     THEN /\ state' = [state EXCEPT !.isPaused = TRUE]
          /\ timerId' = 0
     ELSE UNCHANGED ctlVars
  /\ replayState' = [replayState EXCEPT !.isPaused = TRUE]
  /\ emitted' = <<>>
  /\ settled' = NoSettle
  /\ UNCHANGED <<loaderVars, loadingVisible, replayActive, period, loopVars>>
  /\ lastCall' = NoCall

\* onStepForward: replayController().stepForward()
StepForward ==
  /\ replayActive
  /\ FeedIdle
  /\ ProgramStep
  /\ suppressTimers < MaxTimers
  /\ settled' = NoSettle
  /\ IF ~state.isActive
     THEN /\ emitted' = <<>>
          /\ UNCHANGED <<state, replayState, replayIndex,
                         suppressBackwardLoading, suppressTimers>>
     ELSE IF canAdvance(state.currentIndex, state.totalCandles)
     THEN /\ state' = [state EXCEPT !.currentIndex = @ + 1]
          /\ onCandleProgress(state.currentIndex + 1, replayState,
                              historicalOffset, Len(replayData))
          /\ emitted' = <<Progress(state.currentIndex + 1, state.fullData,
                                   "stepForward")>>
     ELSE /\ emitted' = <<Ev("end", state.currentIndex, "stepForward")>>
          /\ UNCHANGED <<state, replayState, replayIndex,
                         suppressBackwardLoading, suppressTimers>>
  /\ UNCHANGED <<replayMode, replayData, historicalOffset, isLoadingBackward,
                 onBackwardDataLoaded, loading, subscriptionSuspended,
                 fetchLimit, loadingVisible, replayActive, period, timerId,
                 fetches, releaseTimers>>
  /\ lastCall' = NoCall

\* onStepBackward: replayController().stepBackward()
StepBackward ==
  /\ replayActive
  /\ FeedIdle
  /\ ProgramStep
  /\ suppressTimers < MaxTimers
  /\ settled' = NoSettle
  /\ IF state.isActive /\ canRetreat(state.currentIndex)
     THEN /\ state' = [state EXCEPT !.currentIndex = @ - 1]
          /\ onCandleProgress(state.currentIndex - 1, replayState,
                              historicalOffset, Len(replayData))
          /\ emitted' = <<Progress(state.currentIndex - 1, state.fullData,
                                   "stepBackward")>>
     ELSE /\ emitted' = <<>>
          /\ UNCHANGED <<state, replayState, replayIndex,
                         suppressBackwardLoading, suppressTimers>>
  /\ UNCHANGED <<replayMode, replayData, historicalOffset, isLoadingBackward,
                 onBackwardDataLoaded, loading, subscriptionSuspended,
                 fetchLimit, loadingVisible, replayActive, period, timerId,
                 fetches, releaseTimers>>
  /\ lastCall' = NoCall

\* onSpeedChange: replayController().setSpeed(speed); setReplayState(speed)
SetSpeed(speed) ==
  /\ replayActive
  /\ FeedIdle
  /\ ProgramStep
  /\ state' = [state EXCEPT !.speed = speed]
  /\ timerId' = IF state.isActive /\ ~state.isPaused
                THEN calculateInterval(speed) ELSE timerId
  /\ replayState' = [replayState EXCEPT !.speed = speed]
  /\ emitted' = <<>>
  /\ settled' = NoSettle
  /\ UNCHANGED <<loaderVars, loadingVisible, replayActive, period, loopVars>>
  /\ lastCall' = NoCall

\* the indices the replay bar's onSeek is called with: every slot of the
\* buffer and some on either side
SeekArgs == (0 - 1)..(MaxSlot + 2)

\* onSeek: replayController().goToIndex(index);
\* dataloader.updateReplayIndex(index); setReplayState(currentIndex: index)
Seek(index) ==
  /\ replayActive
  /\ FeedIdle
  /\ ProgramStep
  /\ suppressTimers < MaxTimers
  /\ settled' = NoSettle
  /\ IF state.isActive
     THEN /\ state' = [state EXCEPT
                         !.currentIndex = goToIndexClamp(index, state.totalCandles)]
          /\ emitted' = <<Progress(goToIndexClamp(index, state.totalCandles),
                                   state.fullData, "goToIndex")>>
          /\ suppressBackwardLoading' = TRUE
          /\ suppressTimers' = suppressTimers + 1
     ELSE /\ emitted' = <<>>
          /\ UNCHANGED <<state, suppressBackwardLoading, suppressTimers>>
  /\ replayIndex' = updateReplayIndex(index, historicalOffset, Len(replayData))
  /\ UNCHANGED replayState
  /\ UNCHANGED <<replayMode, replayData, historicalOffset, isLoadingBackward,
                 onBackwardDataLoaded, loading, subscriptionSuspended,
                 fetchLimit, loadingVisible, replayActive, period, timerId,
                 fetches, releaseTimers>>
  /\ lastCall' = NoCall

\* the setInterval callback: ReplayController._advanceCandle
TimerTick ==
  /\ timerId # 0
  /\ FeedIdle
  /\ ProgramStep
  /\ suppressTimers < MaxTimers
  /\ settled' = NoSettle
  /\ IF canAdvance(state.currentIndex, state.totalCandles)
     THEN /\ state' = [state EXCEPT !.currentIndex = @ + 1]
          /\ onCandleProgress(state.currentIndex + 1, replayState,
                              historicalOffset, Len(replayData))
          /\ emitted' = <<Progress(state.currentIndex + 1, state.fullData, "tick")>>
          /\ UNCHANGED timerId
     ELSE /\ IF state.isActive /\ ~state.isPaused
             THEN /\ state' = [state EXCEPT !.isPaused = TRUE]
                  /\ timerId' = 0
             ELSE UNCHANGED ctlVars
          /\ emitted' = <<Ev("end", state.currentIndex, "tick")>>
          /\ UNCHANGED <<replayState, replayIndex, suppressBackwardLoading,
                         suppressTimers>>
  /\ UNCHANGED <<replayMode, replayData, historicalOffset, isLoadingBackward,
                 onBackwardDataLoaded, loading, subscriptionSuspended,
                 fetchLimit, loadingVisible, replayActive, period,
                 fetches, releaseTimers>>
  /\ lastCall' = NoCall

\* faulty variant: the historical offset survives the reset
clearReplayMode_keepsOffset ==
  /\ replayMode' = FALSE
  /\ replayData' = <<>>
  /\ replayIndex' = 0
  /\ historicalOffset' = historicalOffset
  /\ isLoadingBackward' = FALSE
  /\ suppressBackwardLoading' = FALSE
  /\ onBackwardDataLoaded' = FALSE

\* ChartDataLoader.clearReplayMode, on the loader's replay fields
clearReplayMode ==
  /\ replayMode' = FALSE
  /\ replayData' = <<>>
  /\ replayIndex' = 0
  /\ historicalOffset' = 0
  /\ isLoadingBackward' = FALSE
  /\ suppressBackwardLoading' = FALSE
  /\ onBackwardDataLoaded' = FALSE

\* stopReplay: controller.stop(), setReplayState(default), clearReplayMode,
\* resumeSubscription, reload
StopReplay ==
  /\ replayActive
  /\ FeedIdle
  /\ ProgramStep
  /\ timerId' = 0
  /\ state' = DEFAULT_REPLAY_STATE
  /\ replayActive' = FALSE
  /\ replayState' = DEFAULT_COMPONENT_STATE
  /\ clearReplayMode
  /\ subscriptionSuspended' = FALSE
  /\ emitted' = <<Ev("mode", 0, "stop")>>
  /\ settled' = NoSettle
  /\ fetches' = markStale(fetches)
  /\ UNCHANGED <<loading, fetchLimit, loadingVisible, period, releaseTimers,
                 suppressTimers>>
  /\ lastCall' = NoCall

\* ------------------------------------------------- ChartDataLoader.getBars
SyncCall(type, replay, batch, hasMore) ==
  [type |-> type, replay |-> replay, settled |-> "none", cbCount |-> 1,
   batch |-> batch, hasMore |-> hasMore, rejected |-> FALSE, done |-> TRUE]

\* faulty variant: the empty answer claims that more can be paged
emptyAnswer_hasMore(type, replay) == SyncCall(type, replay, <<>>, TRUE)

\* callback([], false)
emptyAnswer(type, replay) == SyncCall(type, replay, <<>>, FALSE)

\* faulty variant: only the in-flight flag holds a backward request back
backwardBlocked_loadingOnly(inFlight, suppress) == inFlight

\* the guard of a replay backward request: a backward fetch is in flight,
\* or backward loading is suppressed
backwardBlocked(inFlight, suppress) == inFlight \/ suppress

\* a getBars call that delivers without a provider fetch
GetBarsLocal(type) ==
  /\ settled' = NoSettle
  /\ FeedIdle
  /\ ProgramStep
  /\ IF replayMode /\ Len(replayData) > 0
     THEN CASE type = "backward" ->
                 /\ backwardBlocked(isLoadingBackward, suppressBackwardLoading)
                 /\ lastCall' = emptyAnswer(type, TRUE)
            [] type = "update" ->
                 lastCall' = emptyAnswer(type, TRUE)
            [] type = "forward" ->
                 lastCall' = SyncCall(type, TRUE, replaySlice, TRUE)
     ELSE /\ type \in {"backward", "update"}
          /\ lastCall' = emptyAnswer(type, FALSE)
  /\ UNCHANGED <<loaderVars, sigVars, ctlVars, loopVars, emitted>>

\* replay mode, type backward, neither guard flag set: issue the fetch
GetBarsBackwardFetch ==
  /\ replayMode /\ Len(replayData) > 0
  /\ FeedIdle
  /\ ProgramStep
  /\ ~backwardBlocked(isLoadingBackward, suppressBackwardLoading)
  /\ Len(fetches) < MaxFetches
  /\ LET oldestTimestamp == replayData[1]
         oneBeforeOldest == adjustFromTo(period, oldestTimestamp, BackwardCount)[1]
         from == adjustFromTo(period, oneBeforeOldest, fetchLimit)[1]
     IN  fetches' = Append(fetches, [Fetch("backward") EXCEPT
                                       !.from = from, !.to = oneBeforeOldest,
                                       !.oldest = oldestTimestamp])
  /\ isLoadingBackward' = TRUE
  /\ settled' = NoSettle
  /\ UNCHANGED <<replayMode, replayData, replayIndex, historicalOffset,
                 suppressBackwardLoading, onBackwardDataLoaded, loading,
                 subscriptionSuspended, fetchLimit, sigVars, ctlVars,
                 releaseTimers, suppressTimers, emitted>>
  /\ lastCall' = NoCall

\* the .then branch of the backward fetch
BackwardResolved(i, olderData) ==
  /\ i \in InFlight("backward")
  /\ FeedIdle
  /\ ProgramStep
  /\ releaseTimers < MaxTimers
  /\ suppressTimers < MaxTimers
  /\ fetches' = RemoveAt(fetches, i)
  /\ releaseTimers' = releaseTimers + 1
  /\ lastCall' = [SyncCall("backward", TRUE, <<>>, FALSE) EXCEPT
                    !.settled = "resolved"]
  /\ LET valid == IF Len(olderData) > 0 /\ Len(replayData) > 0
                  THEN validOlderData(olderData, replayData[1]) ELSE <<>>
         prepend == Len(valid) > 0 /\ valid[Len(valid)] < replayData[1]
         newOffset == prependedOffset(historicalOffset, olderData, valid)
         newData == prependData(valid, replayData)
     IN  /\ settled' = [Settled("backward") EXCEPT
                         !.k = IF prepend THEN Len(valid) ELSE 0,
                         !.dropped = Len(olderData) - Len(valid),
                         !.stale = fetches[i].stale,
                         !.notified = IF prepend /\ onBackwardDataLoaded
                                      THEN <<Len(valid)>> ELSE <<>>]
         /\ IF prepend
            THEN /\ replayData' = newData
                 /\ historicalOffset' = newOffset
                 /\ IF onBackwardDataLoaded
                    THEN /\ replayState' = [replayState EXCEPT
                                              !.fullData = newData]
                         /\ state' = IF state.isActive
                                     THEN [state EXCEPT
                                             !.fullData = newData,
                                             !.totalCandles = Len(newData),
                                             !.currentIndex = newOffset + replayIndex]
                                     ELSE state
                         /\ suppressBackwardLoading' = TRUE
                         /\ suppressTimers' = suppressTimers + 1
                    ELSE UNCHANGED <<replayState, state,
                                     suppressBackwardLoading, suppressTimers>>
            ELSE UNCHANGED <<replayData, historicalOffset, replayState, state,
                             suppressBackwardLoading, suppressTimers>>
  /\ emitted' = <<>>
  /\ UNCHANGED <<replayMode, replayIndex, isLoadingBackward,
                 onBackwardDataLoaded, loading, subscriptionSuspended,
                 fetchLimit, loadingVisible, replayActive, period, timerId>>

\* the .catch branch of the backward fetch
BackwardRejected(i) ==
  /\ i \in InFlight("backward")
  /\ FeedIdle
  /\ ProgramStep
  /\ fetches' = RemoveAt(fetches, i)
  /\ isLoadingBackward' = FALSE
  /\ lastCall' = [SyncCall("backward", TRUE, <<>>, FALSE) EXCEPT
                    !.settled = "rejected"]
  /\ settled' = [Settled("backward") EXCEPT !.failed = TRUE,
                                            !.stale = fetches[i].stale]
  /\ emitted' = <<>>
  /\ UNCHANGED <<replayMode, replayData, replayIndex, historicalOffset,
                 suppressBackwardLoading, onBackwardDataLoaded, loading,
                 subscriptionSuspended, fetchLimit, sigVars, ctlVars,
                 releaseTimers, suppressTimers>>

\* faulty variant: the cooldown timeout fires without releasing the guard
ReleaseTimer_keepsGuard ==
  /\ releaseTimers > 0
  /\ FeedIdle
  /\ ProgramStep
  /\ releaseTimers' = releaseTimers - 1
  /\ isLoadingBackward' = isLoadingBackward
  /\ settled' = NoSettle
  /\ emitted' = <<>>
  /\ UNCHANGED <<replayMode, replayData, replayIndex, historicalOffset,
                 suppressBackwardLoading, onBackwardDataLoaded, loading,
                 subscriptionSuspended, fetchLimit, sigVars, ctlVars,
                 fetches, suppressTimers>>
  /\ lastCall' = NoCall

\* setTimeout(() => { this._isLoadingBackward = false }, 500)
ReleaseTimer ==
  /\ releaseTimers > 0
  /\ FeedIdle
  /\ ProgramStep
  /\ releaseTimers' = releaseTimers - 1
  /\ isLoadingBackward' = FALSE
  /\ settled' = NoSettle
  /\ emitted' = <<>>
  /\ UNCHANGED <<replayMode, replayData, replayIndex, historicalOffset,
                 suppressBackwardLoading, onBackwardDataLoaded, loading,
                 subscriptionSuspended, fetchLimit, sigVars, ctlVars,
                 fetches, suppressTimers>>
  /\ lastCall' = NoCall

\* setTimeout(() => dataloader.setSuppressBackwardLoading(false), 100 | 500)
SuppressTimer ==
  /\ suppressTimers > 0
  /\ FeedIdle
  /\ ProgramStep
  /\ suppressTimers' = suppressTimers - 1
  /\ suppressBackwardLoading' = FALSE
  /\ settled' = NoSettle
  /\ emitted' = <<>>
  /\ UNCHANGED <<replayMode, replayData, replayIndex, historicalOffset,
                 isLoadingBackward, onBackwardDataLoaded, loading,
                 subscriptionSuspended, fetchLimit, sigVars, ctlVars,
                 fetches, releaseTimers>>
  /\ lastCall' = NoCall

\* non-replay forward load: the part of getBars before the await
GetBarsLiveFetch ==
  /\ ~(replayMode /\ Len(replayData) > 0)
  /\ FeedIdle
  /\ ProgramStep
  /\ Len(fetches) < MaxFetches
  /\ loading' = TRUE
  /\ loadingVisible' = TRUE
  /\ fetches' = Append(fetches, Fetch("live"))
  /\ settled' = NoSettle
  /\ UNCHANGED <<replayMode, replayData, replayIndex, historicalOffset,
                 isLoadingBackward, suppressBackwardLoading,
                 onBackwardDataLoaded, subscriptionSuspended, fetchLimit,
                 replayActive, period, replayState, ctlVars, releaseTimers,
                 suppressTimers, emitted>>
  /\ lastCall' = NoCall

\* non-replay forward load: the continuation after the await
LiveResolved(i, kLineDataList) ==
  /\ i \in InFlight("live")
  /\ FeedIdle
  /\ ProgramStep
  /\ fetches' = RemoveAt(fetches, i)
  /\ lastCall' = [SyncCall("forward", FALSE, kLineDataList,
                           Len(kLineDataList) > 0) EXCEPT
                    !.settled = "resolved"]
  /\ loading' = FALSE
  /\ loadingVisible' = FALSE
  /\ settled' = [Settled("live") EXCEPT !.failed = (kLineDataList = <<>>)]
  /\ emitted' = <<>>
  /\ UNCHANGED <<replayMode, replayData, replayIndex, historicalOffset,
                 isLoadingBackward, suppressBackwardLoading,
                 onBackwardDataLoaded, subscriptionSuspended, fetchLimit,
                 replayActive, period, replayState, ctlVars, releaseTimers,
                 suppressTimers>>

\* non-replay forward load: the await throws, nothing after it runs and the
\* promise returned by getBars rejects
LiveRejected(i) ==
  /\ i \in InFlight("live")
  /\ FeedIdle
  /\ ProgramStep
  /\ fetches' = RemoveAt(fetches, i)
  /\ lastCall' = [type |-> "forward", replay |-> FALSE,
                  settled |-> "rejected", cbCount |-> 0, batch |-> <<>>,
                  hasMore |-> FALSE, rejected |-> TRUE, done |-> TRUE]
  /\ settled' = [Settled("live") EXCEPT !.failed = TRUE]
  /\ emitted' = <<>>
  /\ UNCHANGED <<loaderVars, sigVars, ctlVars, releaseTimers, suppressTimers>>

\* ------------------------------------------------ replay session handlers
\* startReplay up to its await (the replay button while replay is inactive)
StartReplay ==
  /\ ~replayActive
  /\ unsubscribe
  /\ lastSub' = NoSub
  /\ symbol' = symbol
  /\ Len(fetches) < MaxFetches
  /\ Cardinality(SessionFetches) < MaxSessionFetches
  /\ loadingVisible' = TRUE
  /\ subscriptionSuspended' = TRUE
  /\ fetches' = Append(fetches, Fetch("start"))
  /\ settled' = NoSettle
  /\ emitted' = <<>>
  /\ UNCHANGED <<replayMode, replayData, replayIndex, historicalOffset,
                 isLoadingBackward, suppressBackwardLoading,
                 onBackwardDataLoaded, loading, fetchLimit, replayActive,
                 period, replayState, ctlVars, releaseTimers, suppressTimers>>
  /\ lastCall' = NoCall

\* startReplay after its await resolved
StartResolved(i, fullData) ==
  /\ i \in InFlight("start")
  /\ FeedIdle
  /\ ProgramStep
  /\ suppressTimers < MaxTimers
  /\ fetches' = IF Len(fullData) > 0 THEN markStale(RemoveAt(fetches, i))
               ELSE RemoveAt(fetches, i)
  /\ IF Len(fullData) > 0
     THEN InstallReplay(fullData, fullData[((Len(fullData) * 2) \div 10) + 1], 2)
     ELSE /\ emitted' = <<>>
          /\ UNCHANGED <<replayMode, replayData, replayIndex, historicalOffset,
                         isLoadingBackward, suppressBackwardLoading,
                         onBackwardDataLoaded, replayActive, replayState,
                         ctlVars, suppressTimers>>
  /\ loadingVisible' = FALSE
  /\ settled' = [Settled("start") EXCEPT !.failed = (fullData = <<>>)]
  /\ UNCHANGED <<loading, subscriptionSuspended, fetchLimit, period,
                 releaseTimers>>
  /\ lastCall' = NoCall

\* startReplay's catch block
StartRejected(i) ==
  /\ i \in InFlight("start")
  /\ FeedIdle
  /\ ProgramStep
  /\ fetches' = markStale(RemoveAt(fetches, i))
  /\ clearReplayMode
  /\ subscriptionSuspended' = FALSE
  /\ loadingVisible' = FALSE
  /\ settled' = [Settled("start") EXCEPT !.failed = TRUE]
  /\ emitted' = <<>>
  /\ UNCHANGED <<loading, fetchLimit, replayActive, period, replayState,
                 ctlVars, releaseTimers, suppressTimers>>
  /\ lastCall' = NoCall

\* handleReplayDateChange, target inside the loaded range: jump locally
DateChangeLocal(timestamp) ==
  /\ replayActive
  /\ FeedIdle
  /\ ProgramStep
  /\ suppressTimers < MaxTimers
  /\ Len(replayState.fullData) > 0
  /\ timestamp >= replayState.fullData[1]
  /\ timestamp <= replayState.fullData[Len(replayState.fullData)]
  /\ LET found == FindIndexGE(replayState.fullData, timestamp)
         targetIndex == IF found = -1 THEN Len(replayState.fullData) - 1
                        ELSE found
         clamped == goToIndexClamp(targetIndex, state.totalCandles)
     IN  /\ IF state.isActive
            THEN /\ state' = [state EXCEPT !.currentIndex = clamped]
                 /\ replayIndex' = updateReplayIndex(clamped, historicalOffset,
                                                     Len(replayData))
                 /\ suppressBackwardLoading' = TRUE
                 /\ suppressTimers' = suppressTimers + 1
                 /\ emitted' = <<Progress(clamped, state.fullData, "goToIndex")>>
            ELSE /\ replayIndex' = updateReplayIndex(targetIndex, historicalOffset,
                                                     Len(replayData))
                 /\ emitted' = <<>>
                 /\ UNCHANGED <<state, suppressBackwardLoading, suppressTimers>>
         /\ replayState' = [replayState EXCEPT !.startTimestamp = timestamp]
  /\ settled' = NoSettle
  /\ UNCHANGED <<replayMode, replayData, historicalOffset, isLoadingBackward,
                 onBackwardDataLoaded, loading, subscriptionSuspended,
                 fetchLimit, loadingVisible, replayActive, period, timerId,
                 fetches, releaseTimers>>
  /\ lastCall' = NoCall

\* handleReplayDateChange, target outside the loaded range: up to the await
DateChangeFetch(timestamp) ==
  /\ replayActive
  /\ FeedIdle
  /\ ProgramStep
  /\ Len(fetches) < MaxFetches
  /\ Cardinality(SessionFetches) < MaxSessionFetches
  /\ ~(/\ Len(replayState.fullData) > 0
       /\ timestamp >= replayState.fullData[1]
       /\ timestamp <= replayState.fullData[Len(replayState.fullData)])
  /\ loadingVisible' = TRUE
  /\ fetches' = Append(fetches, [Fetch("date") EXCEPT
                                   !.ts = timestamp,
                                   !.speed = replayState.speed])
  /\ settled' = NoSettle
  /\ emitted' = <<>>
  /\ UNCHANGED <<loaderVars, replayActive, period, replayState, ctlVars,
                 releaseTimers, suppressTimers>>
  /\ lastCall' = NoCall

\* handleReplayDateChange after its await resolved (try + finally)
DateResolved(i, fullData) ==
  /\ i \in InFlight("date")
  /\ FeedIdle
  /\ ProgramStep
  /\ suppressTimers < MaxTimers
  /\ fetches' = IF Len(fullData) > 0 THEN markStale(RemoveAt(fetches, i))
               ELSE RemoveAt(fetches, i)
  /\ IF Len(fullData) > 0
     THEN InstallReplay(fullData, fetches[i].ts, fetches[i].speed)
     ELSE /\ emitted' = <<>>
          /\ UNCHANGED <<replayMode, replayData, replayIndex, historicalOffset,
                         isLoadingBackward, suppressBackwardLoading,
                         onBackwardDataLoaded, replayActive, replayState,
                         ctlVars, suppressTimers>>
  /\ loadingVisible' = FALSE
  /\ settled' = [Settled("date") EXCEPT !.failed = (fullData = <<>>)]
  /\ UNCHANGED <<loading, subscriptionSuspended, fetchLimit, period,
                 releaseTimers>>
  /\ lastCall' = NoCall

\* handleReplayDateChange's catch + finally
DateRejected(i) ==
  /\ i \in InFlight("date")
  /\ FeedIdle
  /\ ProgramStep
  /\ fetches' = RemoveAt(fetches, i)
  /\ loadingVisible' = FALSE
  /\ settled' = [Settled("date") EXCEPT !.failed = TRUE]
  /\ emitted' = <<>>
  /\ UNCHANGED <<loaderVars, replayActive, period, replayState, ctlVars,
                 releaseTimers, suppressTimers>>
  /\ lastCall' = NoCall

\* setPeriod(p) from the period bar, and the period-change effect it runs
PeriodChange(p) ==
  /\ p # period
  /\ FeedIdle
  /\ ProgramStep
  /\ period' = p
  /\ settled' = NoSettle
  /\ emitted' = <<>>
  /\ IF replayActive
     THEN /\ Len(fetches) < MaxFetches
          /\ Cardinality(SessionFetches) < MaxSessionFetches
          /\ IF state.isActive /\ ~state.isPaused
             THEN /\ state' = [state EXCEPT !.isPaused = TRUE]
                  /\ timerId' = 0
             ELSE UNCHANGED ctlVars
          /\ replayState' = [replayState EXCEPT !.isPaused = TRUE]
          /\ loadingVisible' = TRUE
          /\ fetches' = Append(fetches, [Fetch("period") EXCEPT
                                           !.ts = replayState.startTimestamp,
                                           !.period = p])
     ELSE UNCHANGED <<ctlVars, replayState, loadingVisible, fetches>>
  /\ UNCHANGED <<loaderVars, replayActive, releaseTimers, suppressTimers>>
  /\ lastCall' = NoCall

\* the .then of the period-change effect's fetch
PeriodResolved(i, fullData) ==
  /\ i \in InFlight("period")
  /\ FeedIdle
  /\ ProgramStep
  /\ suppressTimers < MaxTimers
  /\ fetches' = IF Len(fullData) > 0 THEN markStale(RemoveAt(fetches, i))
               ELSE RemoveAt(fetches, i)
  /\ IF Len(fullData) > 0
     THEN InstallReplay(fullData, fetches[i].ts, replayState.speed)
     ELSE /\ emitted' = <<>>
          /\ UNCHANGED <<replayMode, replayData, replayIndex, historicalOffset,
                         isLoadingBackward, suppressBackwardLoading,
                         onBackwardDataLoaded, replayActive, replayState,
                         ctlVars, suppressTimers>>
  /\ loadingVisible' = FALSE
  /\ settled' = [Settled("period") EXCEPT !.failed = (fullData = <<>>)]
  /\ UNCHANGED <<loading, subscriptionSuspended, fetchLimit, period,
                 releaseTimers>>
  /\ lastCall' = NoCall

\* the .catch of the period-change effect's fetch
PeriodRejected(i) ==
  /\ i \in InFlight("period")
  /\ FeedIdle
  /\ ProgramStep
  /\ fetches' = RemoveAt(fetches, i)
  /\ loadingVisible' = FALSE
  /\ settled' = [Settled("period") EXCEPT !.failed = TRUE]
  /\ emitted' = <<>>
  /\ UNCHANGED <<loaderVars, replayActive, period, replayState, ctlVars,
                 releaseTimers, suppressTimers>>
  /\ lastCall' = NoCall

\* ------------------------------------------------------------ specification
\* timestamps the date picker is driven with: the second slot (inside or
\* outside the loaded range, depending on the buffer) and one past the last
PickableTimes == {BaseTime + MinuteMs, BaseTime + (MaxSlot + 1) * MinuteMs}

\* the replay session: replay bar, playback timer, session start / stop,
\* date change inside the loaded buffer, and the host's backward paging with
\* its fetch, which may resolve with any batch; the requests that are
\* answered locally and the handlers that refetch are left to SpecHost
Next ==
  \/ Play
  \/ Pause
  \/ StepForward
  \/ StepBackward
  \/ \E speed \in Speeds : SetSpeed(speed)
  \/ \E index \in SeekArgs : Seek(index)
  \/ TimerTick
  \/ StopReplay
  \/ GetBarsBackwardFetch
  \/ \E i \in 1..MaxFetches, olderData \in OlderBatches : BackwardResolved(i, olderData)
  \/ \E i \in 1..MaxFetches : BackwardRejected(i)
  \/ ReleaseTimer
  \/ SuppressTimer
  \/ StartReplay
  \/ \E i \in 1..MaxFetches, fullData \in Batches : StartResolved(i, fullData)
  \/ \E i \in 1..MaxFetches : StartRejected(i)
  \/ \E timestamp \in PickableTimes : DateChangeLocal(timestamp)

Spec == Init /\ [][Next]_vars

\* the host side: every getBars path (live and replay), session start and
\* stop and the period switch with its refetch, without the replay bar and
\* the playback timer (the date change with a refetch is run in SpecLoader);
\* what is observed here is call-backs and flags, and providers keep to
\* ascending batches
NextHost ==
  \/ \E type \in {"forward", "backward", "update"} : GetBarsLocal(type)
  \/ GetBarsBackwardFetch
  \/ \E i \in 1..MaxFetches, olderData \in Batches : BackwardResolved(i, olderData)
  \/ \E i \in 1..MaxFetches : BackwardRejected(i)
  \/ ReleaseTimer
  \/ SuppressTimer
  \/ GetBarsLiveFetch
  \/ \E i \in 1..MaxFetches, kLineDataList \in Batches : LiveResolved(i, kLineDataList)
  \/ \E i \in 1..MaxFetches : LiveRejected(i)
  \/ StartReplay
  \/ \E i \in 1..MaxFetches, fullData \in Batches : StartResolved(i, fullData)
  \/ \E i \in 1..MaxFetches : StartRejected(i)
  \/ StopReplay
  \/ \E p \in Periods : PeriodChange(p)
  \/ \E i \in 1..MaxFetches, fullData \in Batches : PeriodResolved(i, fullData)
  \/ \E i \in 1..MaxFetches : PeriodRejected(i)

SpecHost == Init /\ [][NextHost]_vars

\* ---------------------------------------------------------------- live feed
\* ChartDataLoader.subscribeBar(params) with params.callback = callback:
\* skipped while suspended, else BinanceDatafeed.subscribe(symbol(),
\* period(), callback), which closes the socket if the symbol or the stream
\* interval changed and opens one if none is open
SubscribeBar(callback) ==
  /\ lastSub' = [called |-> TRUE,
                 forwarded |-> forwardsSubscribe(subscriptionSuspended),
                 symbol |-> symbol, period |-> period, callback |-> callback]
  /\ ProgramStep
  /\ IF forwardsSubscribe(subscriptionSuspended)
     THEN LET closing == mustReconnect(ws, symbol, period)
              kept == IF closing THEN NoWs ELSE ws
              left == IF closing THEN connections \ {ws} ELSE connections
          IN  IF ~kept.open
              THEN /\ ws' = NewWs(symbol, period, callback)
                   /\ connections' = left \cup {NewWs(symbol, period, callback)}
              ELSE /\ ws' = kept
                   /\ connections' = left
     ELSE UNCHANGED <<ws, connections>>
  /\ lastCall' = NoCall
  /\ settled' = NoSettle
  /\ emitted' = <<>>
  /\ UNCHANGED <<loaderVars, sigVars, ctlVars, loopVars, symbol>>

\* ChartDataLoader.unsubscribeBar -> BinanceDatafeed.unsubscribe
UnsubscribeBar ==
  /\ unsubscribe
  /\ lastSub' = NoSub
  /\ lastCall' = NoCall
  /\ settled' = NoSettle
  /\ emitted' = <<>>
  /\ UNCHANGED <<loaderVars, sigVars, ctlVars, loopVars, symbol>>

\* setSymbol(s) from the symbol search
SetSymbol(s) ==
  /\ s # symbol
  /\ symbol' = s
  /\ ProgramStep
  /\ lastSub' = NoSub
  /\ lastCall' = NoCall
  /\ settled' = NoSettle
  /\ emitted' = <<>>
  /\ UNCHANGED <<loaderVars, sigVars, ctlVars, loopVars, ws, connections>>

\* the live feed: the host subscribing and unsubscribing, symbol and period
\* switches, and the replay sessions that suspend and resume the feed
NextFeed ==
  \/ \E callback \in Callbacks : SubscribeBar(callback)
  \/ UnsubscribeBar
  \/ \E s \in Symbols : SetSymbol(s)
  \/ \E p \in FeedPeriods : PeriodChange(p)
  \/ \E i \in 1..MaxFetches, fullData \in Batches : PeriodResolved(i, fullData)
  \/ \E i \in 1..MaxFetches : PeriodRejected(i)
  \/ StartReplay
  \/ \E i \in 1..MaxFetches, fullData \in Batches : StartResolved(i, fullData)
  \/ \E i \in 1..MaxFetches : StartRejected(i)
  \/ StopReplay
  \/ SuppressTimer

SpecFeed == Init /\ [][NextFeed]_vars

\* the settings modal: onChange with a candleFetchLimit, and onRestoreDefault
\* (which sets 500 again), both ending in dataloader.setFetchLimit
SetFetchLimit(limit) ==
  /\ fetchLimit' = limit
  /\ FeedIdle
  /\ ProgramStep
  /\ settled' = NoSettle
  /\ emitted' = <<>>
  /\ lastCall' = NoCall
  /\ UNCHANGED <<replayMode, replayData, replayIndex, historicalOffset,
                 isLoadingBackward, suppressBackwardLoading,
                 onBackwardDataLoaded, loading, subscriptionSuspended,
                 sigVars, ctlVars, loopVars>>

\* whole replay sessions seen from the loader and the clock: start, date
\* change with a refetch, backward paging, stop, with the fetch limit
\* changed from the settings modal
NextLoader ==
  \/ \E limit \in FetchLimits : SetFetchLimit(limit)
  \/ StartReplay
  \/ \E i \in 1..MaxFetches, fullData \in Batches : StartResolved(i, fullData)
  \/ \E i \in 1..MaxFetches : StartRejected(i)
  \/ StopReplay
  \/ \E timestamp \in PickableTimes : DateChangeFetch(timestamp)
  \/ \E i \in 1..MaxFetches, fullData \in Batches : DateResolved(i, fullData)
  \/ \E i \in 1..MaxFetches : DateRejected(i)
  \/ GetBarsBackwardFetch
  \/ \E i \in 1..MaxFetches, olderData \in Batches : BackwardResolved(i, olderData)
  \/ \E i \in 1..MaxFetches : BackwardRejected(i)
  \/ ReleaseTimer
  \/ SuppressTimer

SpecLoader == Init /\ [][NextLoader]_vars

\* a provider fetch settles: its promise resolves or rejects
BackwardSettles ==
  \/ \E i \in 1..MaxFetches, olderData \in Batches : BackwardResolved(i, olderData)
  \/ \E i \in 1..MaxFetches : BackwardRejected(i)

StartSettles ==
  \/ \E i \in 1..MaxFetches, fullData \in Batches : StartResolved(i, fullData)
  \/ \E i \in 1..MaxFetches : StartRejected(i)

DateSettles ==
  \/ \E i \in 1..MaxFetches, fullData \in Batches : DateResolved(i, fullData)
  \/ \E i \in 1..MaxFetches : DateRejected(i)

\* the loader's replay handlers under the event loop's guarantees: every
\* provider fetch eventually settles and every scheduled timeout
\* eventually fires
SpecLoaderFair ==
  /\ SpecLoader
  /\ WF_vars(BackwardSettles)
  /\ WF_vars(StartSettles)
  /\ WF_vars(DateSettles)
  /\ WF_vars(ReleaseTimer)
  /\ WF_vars(SuppressTimer)

\* REPLAY_SPEED_OPTIONS in halves: 0.5x, 1x, 2x, 5x, 10x
REPLAY_SPEED_OPTIONS == {1, 2, 4, 10, 20}

\* ReplayController.dispose(), called by the owner of the clock: _stopTimer
\* and the state reset, no callback (the component itself never calls it, so
\* its signals and the loader stay as they are)
Dispose ==
  /\ timerId' = 0
  /\ FeedIdle
  /\ ProgramStep
  /\ state' = DEFAULT_REPLAY_STATE
  /\ emitted' = <<>>
  /\ settled' = NoSettle
  /\ lastCall' = NoCall
  /\ UNCHANGED <<loaderVars, sigVars, loopVars>>

\* the clock over whole sessions: the replay bar's buttons and speed menu,
\* the playback timer, start, stop and dispose, and the date change that
\* refetches and starts the clock again
NextClock ==
  \/ Play
  \/ Pause
  \/ StepForward
  \/ StepBackward
  \/ \E speed \in REPLAY_SPEED_OPTIONS : SetSpeed(speed)
  \/ TimerTick
  \/ StartReplay
  \/ \E i \in 1..MaxFetches, fullData \in Batches : StartResolved(i, fullData)
  \/ \E i \in 1..MaxFetches : StartRejected(i)
  \/ StopReplay
  \/ \E timestamp \in PickableTimes : DateChangeFetch(timestamp)
  \/ \E i \in 1..MaxFetches, fullData \in Batches : DateResolved(i, fullData)
  \/ \E i \in 1..MaxFetches : DateRejected(i)
  \/ SuppressTimer
  \/ Dispose

SpecClock == Init /\ [][NextClock]_vars

\* ------------------------------------------------- pure functions, evaluated
\* the units of a Period
PeriodTypes == {"second", "minute", "hour", "day", "week", "month", "year"}

\* open / high / low / close / volume / turnover of the base candles a
\* response is made of (prices in ticks)
CandleShapes ==
  {[open |-> 1, high |-> 3, low |-> 1, close |-> 2, volume |-> 1, turnover |-> 2],
   [open |-> 2, high |-> 5, low |-> 0, close |-> 4, volume |-> 2, turnover |-> 7],
   [open |-> 4, high |-> 4, low |-> 2, close |-> 3, volume |-> 0, turnover |-> 0]}

\* a base candle: data.map(kline => ({timestamp, open, high, ...}))
Kline(ts, shape) ==
  [timestamp |-> ts, open |-> shape.open, high |-> shape.high,
   low |-> shape.low, close |-> shape.close, volume |-> shape.volume,
   turnover |-> shape.turnover]

\* the responses of the klines endpoint: 1m candles at strictly ascending
\* minute boundaries
BaseKlineLists ==
  {[i \in 1..Len(SortedSeq(S)) |-> Kline(SortedSeq(S)[i], shapes[i])] :
     S \in {T \in SUBSET {BaseTime + i * MinuteMs : i \in 0..(MaxSlot + 1)} :
              Cardinality(T) <= MaxBaseCandles},
     shapes \in [1..MaxBaseCandles -> CandleShapes]}

\* faulty variant: the close of the first constituent is kept
mergeCandle_keepsClose(currentAgg, k) ==
  [currentAgg EXCEPT !.high = Max(@, k.high),
                     !.low = Min(@, k.low),
                     !.volume = @ + k.volume,
                     !.turnover = @ + k.turnover]

\* the else-branch of the aggregation loop: k joins the open bucket
mergeCandle(currentAgg, k) ==
  [currentAgg EXCEPT !.high = Max(@, k.high),
                     !.low = Min(@, k.low),
                     !.close = k.close,
                     !.volume = @ + k.volume,
                     !.turnover = @ + k.turnover]

\* baseKlines.forEach of getHistoryKLineData and the final push; currentAgg
\* is <<>> for null and <<candle>> otherwise
RECURSIVE aggregateLoop(_, _, _, _)
aggregateLoop(baseKlines, aggDuration, result, currentAgg) ==
  IF baseKlines = <<>>
  THEN IF currentAgg # <<>> THEN Append(result, currentAgg[1]) ELSE result
  ELSE LET k == Head(baseKlines)
           aggTimestamp == (k.timestamp \div aggDuration) * aggDuration
           closes == currentAgg # <<>> /\ currentAgg[1].timestamp # aggTimestamp
           pushed == IF closes THEN Append(result, currentAgg[1]) ELSE result
           open == IF closes THEN <<>> ELSE currentAgg
       IN  aggregateLoop(Tail(baseKlines), aggDuration, pushed,
                         IF open = <<>>
                         THEN <<[k EXCEPT !.timestamp = aggTimestamp]>>
                         ELSE <<mergeCandle(open[1], k)>>)

\* what getHistoryKLineData returns for a response of base candles
aggregate(baseKlines, multiplier, baseDuration) ==
  IF multiplier = 1 THEN baseKlines
  ELSE aggregateLoop(baseKlines, multiplier * baseDuration, <<>>, <<>>)

\* the periods the interval mapping is evaluated on
StrategyPeriods == [type : PeriodTypes, span : 1..MaxSpan]

\* getStrategy(period), as getHistoryKLineData and subscribe call it
EvalGetStrategy(p) ==
  /\ evaluation' = [fn |-> "getStrategy", period |-> p,
                    result |-> getStrategy(p)]
  /\ UNCHANGED <<loaderVars, sigVars, ctlVars, loopVars, obsVars, feedVars,
               streamVars, tickerVars>>

\* the aggregation of getHistoryKLineData on a response of 1m candles
EvalAggregate(baseKlines, multiplier) ==
  /\ evaluation' = [fn |-> "aggregate", baseKlines |-> baseKlines,
                    multiplier |-> multiplier, baseDuration |-> MinuteMs,
                    result |-> aggregate(baseKlines, multiplier, MinuteMs)]
  /\ UNCHANGED <<loaderVars, sigVars, ctlVars, loopVars, obsVars, feedVars,
               streamVars, tickerVars>>

\* the periods the alignment is evaluated on: native and custom spans of
\* the units its switch handles, and a unit it has no case for
AlignPeriods ==
  {[type |-> "minute", span |-> 1], [type |-> "minute", span |-> 2],
   [type |-> "minute", span |-> 15], [type |-> "hour", span |-> 1],
   [type |-> "hour", span |-> 4], [type |-> "day", span |-> 1],
   [type |-> "day", span |-> 3], [type |-> "second", span |-> 1]}

\* the timestamps the alignment is evaluated on: on and off the minute,
\* 15-minute and hour boundaries (BaseTime is on an hour, not on a day)
AlignTimes ==
  {BaseTime + m * MinuteMs + ms : m \in {0, 1, 7, 15, 67}, ms \in {0, 1}}

\* adjustFromTo(period, toTimestamp, count)
EvalAdjustFromTo(p, toTimestamp, count) ==
  /\ evaluation' = [fn |-> "adjustFromTo", period |-> p,
                    toTimestamp |-> toTimestamp, count |-> count,
                    result |-> adjustFromTo(p, toTimestamp, count)]
  /\ UNCHANGED <<loaderVars, sigVars, ctlVars, loopVars, obsVars, feedVars,
               streamVars, tickerVars>>

\* the pure functions of the datafeed and the loader, each evaluated on
\* inputs drawn from bounded sets
NextPure ==
  \/ \E p \in StrategyPeriods : EvalGetStrategy(p)
  \/ \E baseKlines \in BaseKlineLists, multiplier \in 1..MaxMultiplier :
       EvalAggregate(baseKlines, multiplier)
  \/ \E p \in AlignPeriods, toTimestamp \in AlignTimes,
          count \in (0 - 1)..MaxCount :
       EvalAdjustFromTo(p, toTimestamp, count)

SpecPure == Init /\ [][NextPure]_vars

\* ------------------------------------------------- the streaming aggregator
\* the periods the period bar switches to in a streaming session, which
\* starts on the native 1m period: two custom ones served from 1m candles
\* (multipliers 2 and 4)
StreamPeriods ==
  {[type |-> "minute", span |-> 2], [type |-> "minute", span |-> 4]}

\* the two versions a published 1m candle is seen in
StreamShapes ==
  {[open |-> 1, high |-> 3, low |-> 1, close |-> 2, volume |-> 1, turnover |-> 2],
   [open |-> 2, high |-> 5, low |-> 0, close |-> 4, volume |-> 2, turnover |-> 7]}

\* unitMs of getHistoryKLineData and of onmessage, by strategy.baseType
streamUnitMs(baseType) ==
  CASE baseType = "second" -> 1000
    [] baseType = "hour" -> HourMs
    [] baseType = "day" -> DayMs
    [] baseType = "week" -> 7 * DayMs
    [] baseType = "month" -> 30 * DayMs
    [] OTHER -> MinuteMs

\* strategy.multiplier * strategy.baseSpan * unitMs
aggDurationOf(strategy) ==
  strategy.multiplier * strategy.baseSpan * streamUnitMs(strategy.baseType)

\* Math.floor(timestamp / aggDuration) * aggDuration
aggTimestampOf(timestamp, aggDuration) ==
  (timestamp \div aggDuration) * aggDuration

\* Map.prototype.set(k.timestamp, k): an existing key keeps its place
mapSet(m, k) ==
  IF \E j \in 1..Len(m) : m[j].timestamp = k.timestamp
  THEN [j \in 1..Len(m) |-> IF m[j].timestamp = k.timestamp THEN k ELSE m[j]]
  ELSE Append(m, k)

RECURSIVE mapSetAll(_, _)
\* currentBaseCandles.forEach(k => map.set(k.timestamp, k))
mapSetAll(m, ks) ==
  IF ks = <<>> THEN m ELSE mapSetAll(mapSet(m, Head(ks)), Tail(ks))

RECURSIVE sortKlines(_)
\* Array.from(map.values()).sort((a, b) => a.timestamp - b.timestamp)
sortKlines(ks) ==
  IF ks = <<>> THEN <<>>
  ELSE LET i == CHOOSE j \in 1..Len(ks) :
                  \A l \in 1..Len(ks) : ks[j].timestamp <= ks[l].timestamp
       IN  <<ks[i]>> \o sortKlines(RemoveAt(ks, i))

\* faulty variant: the retained set is never cleared for a new bucket
retainedFor_neverCleared(retained, aggTimestamp, aggDuration) == retained

\* onmessage: the retained set is cleared if its first key lies in another
\* bucket than the incoming base candle
retainedFor(retained, aggTimestamp, aggDuration) ==
  IF retained # <<>>
     /\ aggTimestampOf(retained[1].timestamp, aggDuration) # aggTimestamp
  THEN <<>>
  ELSE retained

RECURSIVE reAggregate(_, _, _)
\* sortedBase.forEach of onmessage; aggCandle is <<>> for null
reAggregate(sortedBase, aggTimestamp, aggCandle) ==
  IF sortedBase = <<>> THEN aggCandle
  ELSE LET k == Head(sortedBase)
       IN  reAggregate(Tail(sortedBase), aggTimestamp,
                       IF aggCandle = <<>>
                       THEN <<[k EXCEPT !.timestamp = aggTimestamp]>>
                       ELSE <<mergeCandle(aggCandle[1], k)>>)

\* the currentBaseCandles local of getHistoryKLineData once its loop is
\* done: the base candles of the last aggregated candle (the response is
\* ascending, so they are the ones in the bucket of its last candle)
lastBucketCandles(baseKlines, aggDuration) ==
  IF baseKlines = <<>> THEN <<>>
  ELSE SelectSeq(baseKlines, LAMBDA k :
         aggTimestampOf(k.timestamp, aggDuration)
           = aggTimestampOf(baseKlines[Len(baseKlines)].timestamp, aggDuration))

\* the exchange updates the open 1m candle or opens the next one, and the
\* kline message reaches onmessage of the open socket
Publish(shape) ==
  /\ LET n == Len(market)
         opens == n = 0 \/ market[n].shape = shape
         minute == IF opens THEN n ELSE n - 1
         baseCandle == Kline(BaseTime + minute * MinuteMs, shape)
         strategy == ws.strategy
         aggDuration == aggDurationOf(strategy)
         aggTimestamp == aggTimestampOf(baseCandle.timestamp, aggDuration)
         retained == mapSet(retainedFor(currentBaseCandles, aggTimestamp,
                                        aggDuration), baseCandle)
     IN  /\ opens => n < MaxMinutes
         /\ market' = IF opens
                      THEN Append(market, [candle |-> baseCandle, shape |-> shape])
                      ELSE [market EXCEPT ![n] = [candle |-> baseCandle,
                                                  shape |-> shape]]
         /\ IF ~ws.open
            THEN UNCHANGED <<currentBaseCandles, delivered, received>>
            ELSE IF strategy.multiplier = 1
            THEN /\ delivered' = <<[base |-> baseCandle, multiplier |-> 1,
                                    aggDuration |-> aggDuration,
                                    candle |-> baseCandle]>>
                 /\ UNCHANGED <<currentBaseCandles, received>>
            ELSE /\ currentBaseCandles' = retained
                 /\ received' = sortKlines(mapSet(received, baseCandle))
                 /\ delivered' =
                      <<[base |-> baseCandle,
                         multiplier |-> strategy.multiplier,
                         aggDuration |-> aggDuration,
                         candle |-> reAggregate(sortKlines(retained),
                                                aggTimestamp, <<>>)[1]]>>
  /\ lastSub' = NoSub
  /\ lastCall' = NoCall
  /\ settled' = NoSettle
  /\ emitted' = <<>>
  /\ UNCHANGED <<loaderVars, sigVars, ctlVars, loopVars, symbol, ws,
                 connections, evaluation, tickerVars,
                 history>>

\* getHistoryKLineData(symbol, period, from, to) up to its await: the
\* response will hold the 1m candles that opened at or before `to`
GetHistory(to) ==
  /\ Len(history) < MaxHistory
  /\ to \in 1..Len(market)
  /\ history' = Append(history,
                       [period |-> period,
                        baseKlines |-> [j \in 1..to |-> market[j].candle]])
  /\ delivered' = <<>>
  /\ lastSub' = NoSub
  /\ lastCall' = NoCall
  /\ settled' = NoSettle
  /\ emitted' = <<>>
  /\ UNCHANGED <<loaderVars, sigVars, ctlVars, loopVars, symbol, ws,
                 connections, evaluation, tickerVars,
                 currentBaseCandles, market,
                 received>>

\* getHistoryKLineData after its await: a custom period aggregates the
\* response and stores the base candles of its last bucket
HistoryResolved ==
  /\ history # <<>>
  /\ LET strategy == getStrategy(Head(history).period)
         seed == lastBucketCandles(Head(history).baseKlines,
                                   aggDurationOf(strategy))
     IN  IF strategy.multiplier = 1
         THEN UNCHANGED <<currentBaseCandles, received>>
         ELSE /\ currentBaseCandles' = mapSetAll(<<>>, seed)
              /\ received' = sortKlines(mapSetAll(received, seed))
  /\ history' = Tail(history)
  /\ delivered' = <<>>
  /\ lastSub' = NoSub
  /\ lastCall' = NoCall
  /\ settled' = NoSettle
  /\ emitted' = <<>>
  /\ UNCHANGED <<loaderVars, sigVars, ctlVars, loopVars, symbol, ws,
                 connections, evaluation, tickerVars,
                 market>>

\* getHistoryKLineData whose fetch failed: the catch returns []
HistoryFailed ==
  /\ history # <<>>
  /\ history' = Tail(history)
  /\ delivered' = <<>>
  /\ lastSub' = NoSub
  /\ lastCall' = NoCall
  /\ settled' = NoSettle
  /\ emitted' = <<>>
  /\ UNCHANGED <<loaderVars, sigVars, ctlVars, loopVars, symbol, ws,
                 connections, evaluation, tickerVars,
                 currentBaseCandles, market,
                 received>>

\* a streaming session: the host subscribes and unsubscribes, the period
\* bar switches the period, the exchange publishes, history is fetched
NextStream ==
  \/ \E callback \in {1} : SubscribeBar(callback)
  \/ UnsubscribeBar
  \/ \E p \in StreamPeriods : PeriodChange(p)
  \/ \E shape \in StreamShapes : Publish(shape)
  \/ \E to \in 1..MaxMinutes : GetHistory(to)
  \/ HistoryResolved
  \/ HistoryFailed

SpecStream == Init /\ [][NextStream]_vars

\* --------------------------------------------------- MarketDataService
\* the callbacks the service is subscribed with
TickerCallbacks == {1}

\* a socket slot no WebSocket object occupies
FreeSlots(sockets) == {i \in 1..MaxSockets : sockets[i] = "free"}

\* this.ws is given up (reassigned or set to null): a socket that has
\* closed already is no longer referenced by anything
dropReference(sockets, slot) ==
  IF slot # 0 /\ sockets[slot] = "closed"
  THEN [sockets EXCEPT ![slot] = "free"] ELSE sockets

\* the early return of connect(): ws is OPEN, or a connect is under way
connectReturnsEarly ==
  (tickerWs # 0 /\ socketState[tickerWs] = "open") \/ isConnecting

\* MarketDataService.connect
connect ==
  IF connectReturnsEarly
  THEN UNCHANGED <<tickerWs, socketState, isConnecting>>
  ELSE LET sockets == dropReference(socketState, tickerWs)
       IN  /\ FreeSlots(sockets) # {}
           /\ LET slot == CHOOSE i \in FreeSlots(sockets) : TRUE
              IN  /\ tickerWs' = slot
                  /\ socketState' = [sockets EXCEPT ![slot] = "connecting"]
           /\ isConnecting' = TRUE

\* MarketDataService.scheduleReconnect
scheduleReconnect ==
  IF reconnectAttempts >= MAX_RECONNECT_ATTEMPTS
  THEN UNCHANGED <<reconnectTimer, timerPending, reconnectAttempts>>
  ELSE /\ reconnectAttempts' = reconnectAttempts + 1
       /\ reconnectTimer' = TRUE
       /\ timerPending' = TRUE

\* the rest of the program does not move in a step of the service
TickerStep ==
  UNCHANGED <<loaderVars, sigVars, ctlVars, loopVars, obsVars, feedVars,
              evaluation, streamVars>>

\* connect() called by a user of the service
TickerConnect ==
  /\ connect
  /\ disconnected' = FALSE
  /\ UNCHANGED <<reconnectTimer, timerPending, reconnectAttempts,
                 subscribers, allTickersSubscribers>>
  /\ TickerStep

\* subscribe(symbol, callback)
TickerSubscribe(callback) ==
  /\ subscribers' = subscribers \cup {callback}
  /\ connect
  /\ disconnected' = FALSE
  /\ UNCHANGED <<reconnectTimer, timerPending, reconnectAttempts,
                 allTickersSubscribers>>
  /\ TickerStep

\* subscribeAll(callback)
TickerSubscribeAll(callback) ==
  /\ allTickersSubscribers' = allTickersSubscribers \cup {callback}
  /\ connect
  /\ disconnected' = FALSE
  /\ UNCHANGED <<reconnectTimer, timerPending, reconnectAttempts, subscribers>>
  /\ TickerStep

\* the function subscribe returned
TickerUnsubscribe(callback) ==
  /\ callback \in subscribers
  /\ subscribers' = subscribers \ {callback}
  /\ UNCHANGED <<tickerWs, socketState, reconnectTimer, timerPending,
                 isConnecting, reconnectAttempts, allTickersSubscribers,
                 disconnected>>
  /\ TickerStep

\* the function subscribeAll returned
TickerUnsubscribeAll(callback) ==
  /\ callback \in allTickersSubscribers
  /\ allTickersSubscribers' = allTickersSubscribers \ {callback}
  /\ UNCHANGED <<tickerWs, socketState, reconnectTimer, timerPending,
                 isConnecting, reconnectAttempts, subscribers, disconnected>>
  /\ TickerStep

\* MarketDataService.disconnect: the socket's handlers stay attached
TickerDisconnect ==
  /\ reconnectTimer' = FALSE
  /\ timerPending' = IF reconnectTimer THEN FALSE ELSE timerPending
  /\ socketState' =
       IF tickerWs # 0 /\ socketState[tickerWs] \in {"connecting", "open"}
       THEN [socketState EXCEPT ![tickerWs] = "closing"]
       ELSE dropReference(socketState, tickerWs)
  /\ tickerWs' = 0
  /\ subscribers' = {}
  /\ allTickersSubscribers' = {}
  /\ disconnected' = TRUE
  /\ UNCHANGED <<isConnecting, reconnectAttempts>>
  /\ TickerStep

\* ws.onopen
SocketOpen(slot) ==
  /\ socketState[slot] = "connecting"
  /\ socketState' = [socketState EXCEPT ![slot] = "open"]
  /\ isConnecting' = FALSE
  /\ reconnectAttempts' = 0
  /\ UNCHANGED <<tickerWs, reconnectTimer, timerPending, subscribers,
                 allTickersSubscribers, disconnected>>
  /\ TickerStep

\* ws.onerror of a connection that failed; its close event follows
SocketError(slot) ==
  /\ socketState[slot] = "connecting"
  /\ socketState' = [socketState EXCEPT ![slot] = "closing"]
  /\ isConnecting' = FALSE
  /\ UNCHANGED <<tickerWs, reconnectTimer, timerPending, reconnectAttempts,
                 subscribers, allTickersSubscribers, disconnected>>
  /\ TickerStep

\* ws.onclose: of a socket the server dropped, that failed, or that
\* disconnect() closed
SocketClose(slot) ==
  /\ socketState[slot] \in {"open", "closing"}
  /\ socketState' = [socketState EXCEPT
                       ![slot] = IF slot = tickerWs THEN "closed" ELSE "free"]
  /\ isConnecting' = FALSE
  /\ scheduleReconnect
  /\ UNCHANGED <<tickerWs, subscribers, allTickersSubscribers, disconnected>>
  /\ TickerStep

\* the timeout of scheduleReconnect fires: this.connect()
ReconnectTimer ==
  /\ timerPending
  /\ timerPending' = FALSE
  /\ connect
  /\ UNCHANGED <<reconnectTimer, reconnectAttempts, subscribers,
                 allTickersSubscribers, disconnected>>
  /\ TickerStep

\* the ticker service: its users, its sockets' events, its reconnect timer
NextTicker ==
  \/ TickerConnect
  \/ \E callback \in TickerCallbacks : TickerSubscribe(callback)
  \/ \E callback \in TickerCallbacks : TickerSubscribeAll(callback)
  \/ \E callback \in TickerCallbacks : TickerUnsubscribe(callback)
  \/ \E callback \in TickerCallbacks : TickerUnsubscribeAll(callback)
  \/ TickerDisconnect
  \/ \E slot \in 1..MaxSockets : SocketOpen(slot)
  \/ \E slot \in 1..MaxSockets : SocketError(slot)
  \/ \E slot \in 1..MaxSockets : SocketClose(slot)
  \/ ReconnectTimer

SpecTicker == Init /\ [][NextTicker]_vars

\* ------------------------------------------------------------------ claims
Playing == state.isActive /\ ~state.isPaused

\* C1: while the clock plays, a timer tick below the last index advances
\* currentIndex by exactly one, emits that progress and keeps playing; the
\* tick at the last index N-1 leaves the index there, switches to Paused,
\* disarms the timer and emits exactly one end-reached event.
C1_TickAdvancesThenEnds ==
  [][(TimerTick /\ Playing) =>
       IF state.currentIndex < state.totalCandles - 1
       THEN /\ state'.currentIndex = state.currentIndex + 1
            /\ emitted' = <<Progress(state.currentIndex + 1, state.fullData, "tick")>>
            /\ Playing'
            /\ timerId' = timerId
       ELSE /\ state.currentIndex = state.totalCandles - 1
            /\ state'.currentIndex = state.currentIndex
            /\ state'.isPaused
            /\ timerId' = 0
            /\ emitted' = <<Ev("end", state.currentIndex, "tick")>>]_vars

\* a run of at least two candles has just been ended by the timer
C1_Witness ==
  /\ state.isActive /\ state.isPaused /\ timerId = 0
  /\ state.totalCandles >= 2
  /\ state.currentIndex = state.totalCandles - 1
  /\ emitted = <<Ev("end", state.totalCandles - 1, "tick")>>

\* C2: the replay buffer is strictly ascending by timestamp (hence free of
\* duplicate timestamps) after any sequence of setReplayData, forward and
\* backward requests, whatever batch a backward fetch resolves with.
C2_BufferStrictlyAscending == StrictlyAscending(replayData)

\* C3: at most one replay backward fetch is in flight at any time.
C3_AtMostOneBackwardInFlight == Cardinality(InFlight("backward")) <= 1

\* C4: a replay backward fetch ends exactly one period-duration before the
\* (period-aligned) oldest candle of the buffer it was issued for.
C4_FetchEndsOnePeriodBeforeOldest ==
  \A i \in InFlight("backward") :
    fetches[i].to = adjustFromTo(fetches[i].period, fetches[i].oldest, 1)[1]

\* C5: in replay mode the inclusive end of the slice served to a forward
\* request is the absolute index replayOffset + logicalIndex.
C5_VisibleEndIsOffsetPlusIndex ==
  (replayMode /\ Len(replayData) > 0) =>
    Len(replaySlice) - 1 = historicalOffset + replayIndex

\* the mapping after a prepend and an index move: offset and logical index
\* are both non-zero
C5_Witness ==
  replayMode /\ historicalOffset >= 1 /\ replayIndex >= 1

\* C6: a backward resolution that prepends k >= 1 candles keeps the old
\* buffer as the suffix, raises replayOffset by exactly k and leaves the
\* logical index alone, so the candle at the visible end is the same one.
C6_PrependShiftsOffsetOnly ==
  [][(settled'.kind = "backward" /\ Len(replayData') > Len(replayData)) =>
       LET k == Len(replayData') - Len(replayData)
       IN  /\ SubSeq(replayData', k + 1, Len(replayData')) = replayData
           /\ historicalOffset' = historicalOffset + k
           /\ replayIndex' = replayIndex
           /\ replayData'[historicalOffset' + replayIndex' + 1]
                = replayData[historicalOffset + replayIndex + 1]]_vars

\* a prepend has just happened under a non-zero logical index
C6_Witness ==
  settled.kind = "backward" /\ settled.k >= 1 /\ replayIndex >= 1

\* C7: whenever the Replay Clock is active, 0 <= currentIndex < totalCandles.
C7_ClockIndexInRange ==
  state.isActive =>
    (0 <= state.currentIndex /\ state.currentIndex < state.totalCandles)

\* the clock still holds the last index after a backward prepend has handed
\* it a longer buffer through updateFullData
C7_Witness ==
  /\ state.isActive
  /\ settled.kind = "backward" /\ settled.k >= 1
  /\ state.totalCandles = Len(replayData)
  /\ state.currentIndex = state.totalCandles - 1

\* C8: a getBars call whose provider fetch rejected has delivered an empty
\* batch with hasMore = false, and its own promise did not reject.
C8_RejectedFetchDeliversEmpty ==
  (lastCall.done /\ lastCall.settled = "rejected") =>
    /\ lastCall.cbCount = 1
    /\ lastCall.batch = <<>>
    /\ ~lastCall.hasMore
    /\ ~lastCall.rejected

\* C9: once a historical fetch of the live forward load, startReplay, a
\* replay date change or a replay period change has failed and no other fetch
\* is in flight, the loader's loading flag and the loading-visible signal are
\* both false.
C9_FailedFetchDismissesLoading ==
  (/\ settled.kind \in {"live", "start", "date", "period"}
   /\ settled.failed
   /\ fetches = <<>>) =>
    (~loading /\ ~loadingVisible)

\* C10: every completed getBars call has invoked the host callback exactly
\* once.
C10_CallbackExactlyOnce == lastCall.done => lastCall.cbCount = 1

\* C11: once a startReplay whose history fetch failed (rejected, or came
\* back empty) has finished and no other fetch is pending, replay is
\* inactive and the live subscription is no longer suspended.
C11_FailedStartResumesSubscription ==
  (settled.kind = "start" /\ settled.failed /\ fetches = <<>>) =>
    (~replayActive /\ ~replayMode /\ ~subscriptionSuspended)

\* C12: a backward fetch that settles after setReplayData or clearReplayMode
\* ran since it was issued is discarded: the buffer and the offset are left
\* unchanged and no candles are handed to onBackwardDataLoaded.
C12_StaleBackwardDiscarded ==
  [][(settled'.kind = "backward" /\ settled'.stale) =>
       /\ replayData' = replayData
       /\ historicalOffset' = historicalOffset
       /\ settled'.k = 0]_vars

\* C13: at most one socket is open at any time, and a forwarded subscribe for
\* a symbol or period other than the one the open socket serves closes that
\* socket and opens one built for the new symbol and period that delivers to
\* the new callback.
C13_SubscribeSwitchesConnection ==
  [][/\ Cardinality(connections') <= 1
     /\ (/\ lastSub'.forwarded
         /\ ws.open
         /\ (ws.symbol # lastSub'.symbol \/ ws.period # lastSub'.period)) =>
          /\ ws \notin connections'
          /\ ws' = NewWs(lastSub'.symbol, lastSub'.period, lastSub'.callback)
          /\ connections' = {ws'}]_vars

\* C14: while subscriptions are suspended no subscribeBar call is forwarded
\* and the provider's socket state stays as it is; suspendSubscription (in
\* startReplay) leaves the loader suspended with no live socket, whether or
\* not it was suspended before.
C14_SuspendedFeedStaysClosed ==
  [][/\ (subscriptionSuspended /\ lastSub'.called) =>
          (~lastSub'.forwarded /\ ws' = ws /\ connections' = connections)
     /\ StartReplay =>
          (subscriptionSuspended' /\ ~ws'.open /\ connections' = {})
     /\ (StartReplay /\ subscriptionSuspended) =>
          (ws' = ws /\ connections' = connections)]_vars

\* a subscribeBar call has just been dropped while suspended: nothing is open
C14_Witness ==
  /\ lastSub.called /\ ~lastSub.forwarded
  /\ subscriptionSuspended
  /\ ~ws.open /\ connections = {}

\* C15: in replay mode a forward request is answered at once, by one
\* callback carrying exactly the candles buffer[0 .. offset + logicalIndex]
\* with hasMore = true, and no provider fetch is issued.
C15_ReplayForwardServesPrefix ==
  [][(lastCall'.type = "forward" /\ lastCall'.replay) =>
       /\ lastCall'.done /\ lastCall'.cbCount = 1
       /\ Len(lastCall'.batch) = historicalOffset + replayIndex + 1
       /\ lastCall'.batch =
            SubSeq(replayData, 1, historicalOffset + replayIndex + 1)
       /\ lastCall'.hasMore
       /\ fetches' = fetches]_vars

\* a forward request has been served a proper prefix of a buffer that grew
\* by a backward prepend
C15_Witness ==
  /\ lastCall.type = "forward" /\ lastCall.replay
  /\ historicalOffset >= 1
  /\ Len(lastCall.batch) < Len(replayData)

\* C16: every update request, and every backward request outside replay
\* mode, is answered at once by one callback with an empty batch and
\* hasMore = false; it issues no provider fetch and changes no loader state.
C16_UnsupportedRequestsDeliverEmpty ==
  [][(\/ lastCall'.type = "update"
      \/ (lastCall'.type = "backward" /\ ~lastCall'.replay)) =>
       /\ lastCall'.done /\ lastCall'.cbCount = 1
       /\ lastCall'.batch = <<>>
       /\ ~lastCall'.hasMore
       /\ fetches' = fetches
       /\ UNCHANGED loaderVars]_vars

\* an update request has just been answered in replay mode
C16_Witness ==
  /\ lastCall.type = "update" /\ lastCall.replay /\ lastCall.done
  /\ replayMode /\ Len(replayData) > 0

\* C17: updateReplayIndex(absoluteIndex), on a buffer installed by
\* setReplayData and grown by backward prepends, sets the logical index to
\* absoluteIndex - offset, clamped into [0, buffer.length - offset - 1].
C17_UpdateReplayIndexClamps ==
  [][\A i \in SeekArgs :
       (Seek(i) /\ replayMode /\ Len(replayData) > 0) =>
         LET hi == Len(replayData) - historicalOffset - 1
             logical == i - historicalOffset
         IN  /\ hi >= 0
             /\ replayIndex' = IF logical < 0 THEN 0
                               ELSE IF logical > hi THEN hi ELSE logical
             /\ replayIndex' \in 0..hi]_vars

\* after a backward prepend the bar sought the absolute index of a
\* prepended candle or a negative one: the logical index was clamped to 0
C17_Witness ==
  /\ replayMode /\ historicalOffset >= 1
  /\ emitted = <<Progress(0, state.fullData, "goToIndex")>>
  /\ replayIndex = 0
  /\ Len(replayData) - historicalOffset - 1 >= 1

\* C18: clearReplayMode (called by stopReplay and by startReplay's catch)
\* puts the mode flag, buffer, index, offset, both backward-loading flags
\* and the backward-loaded callback back to their defaults and leaves the
\* fetch limit as it was.
C18_ClearResetsReplayStateOnly ==
  [][(StopReplay \/ \E i \in 1..MaxFetches : StartRejected(i)) =>
       /\ ~replayMode'
       /\ replayData' = <<>>
       /\ replayIndex' = 0
       /\ historicalOffset' = 0
       /\ ~isLoadingBackward'
       /\ ~suppressBackwardLoading'
       /\ ~onBackwardDataLoaded'
       /\ fetchLimit' = fetchLimit]_vars

\* a session with a changed fetch limit was stopped while a backward fetch
\* was still in flight (so the loading flag was set when the reset came)
C18_Witness ==
  /\ emitted = <<Ev("mode", 0, "stop")>>
  /\ ~replayMode /\ replayData = <<>> /\ ~isLoadingBackward
  /\ fetchLimit = SmallFetchLimit
  /\ \E i \in 1..Len(fetches) : fetches[i].kind = "backward" /\ fetches[i].stale

\* C19: start(anchorTimestamp, buffer) leaves the clock Active/Paused with
\* currentIndex at the first candle whose timestamp is >= the anchor, or 0
\* when there is none, and emits exactly one progress notification, which
\* carries that index and the slice buffer[0 .. index].
C19_StartPositionsClock ==
  [][(emitted' # <<>> /\ emitted'[Len(emitted')].by = "start") =>
       LET anchor == replayState'.startTimestamp
           buffer == state'.fullData
           atOrAfter == {k \in 1..Len(buffer) : buffer[k] >= anchor}
           first == IF atOrAfter = {} THEN 0
                    ELSE (CHOOSE k \in atOrAfter : \A j \in atOrAfter : k <= j) - 1
           notes == SelectSeq(emitted', LAMBDA e : e.ev = "progress")
       IN  /\ state'.isActive /\ state'.isPaused
           /\ state'.currentIndex = first
           /\ Len(notes) = 1
           /\ notes[1].index = first
           /\ notes[1].data = SubSeq(buffer, 1, first + 1)]_vars

\* a session has just been started in the middle of a three-candle buffer
C19_Witness ==
  /\ emitted # <<>> /\ emitted[Len(emitted)].by = "start"
  /\ Len(state.fullData) = 3
  /\ state.currentIndex = 1
  /\ state.isActive /\ state.isPaused

\* C20: play() changes nothing of the clock unless it is Active/Paused, and
\* from Active/Paused it yields Active/Playing with the timer armed; pause()
\* changes nothing unless the clock is Active/Playing, and from
\* Active/Playing it yields Active/Paused with the timer disarmed.
C20_PlayPauseGuards ==
  [][/\ Play =>
          IF state.isActive /\ state.isPaused
          THEN /\ state' = [state EXCEPT !.isPaused = FALSE]
               /\ timerId' # 0
          ELSE UNCHANGED ctlVars /\ emitted' = <<>>
     /\ Pause =>
          IF state.isActive /\ ~state.isPaused
          THEN /\ state' = [state EXCEPT !.isPaused = TRUE]
               /\ timerId' = 0
          ELSE UNCHANGED ctlVars /\ emitted' = <<>>]_vars

\* the clock is playing on an armed timer right after play(), some candles
\* into the buffer
C20_Witness ==
  /\ state.isActive /\ ~state.isPaused /\ timerId # 0
  /\ ~replayState.isPaused
  /\ emitted = <<>>
  /\ state.currentIndex >= 1

\* C21: whenever the playback timer is armed, its period is 1000 ms divided
\* by the clock's current speed multiplier (speed is kept in halves, so
\* period * speed = 2 * 1000).
C21_TimerPeriodMatchesSpeed ==
  timerId # 0 => timerId * state.speed = 2 * BaseIntervalMs

\* C22: in an active clock, playing or paused, stepForward below the last
\* index adds one to the index and emits progress, and at the last index
\* keeps the index and emits end-reached; stepBackward above index 0
\* subtracts one and emits progress, and at index 0 changes and emits
\* nothing; on an inactive clock both change and emit nothing.
C22_StepsMoveOneCandle ==
  [][/\ StepForward =>
          IF ~state.isActive
          THEN UNCHANGED ctlVars /\ emitted' = <<>>
          ELSE IF state.currentIndex < state.totalCandles - 1
          THEN /\ state' = [state EXCEPT !.currentIndex = state.currentIndex + 1]
               /\ timerId' = timerId
               /\ Len(emitted') = 1 /\ emitted'[1].ev = "progress"
               /\ emitted'[1].index = state.currentIndex + 1
          ELSE /\ UNCHANGED ctlVars
               /\ Len(emitted') = 1 /\ emitted'[1].ev = "end"
     /\ StepBackward =>
          IF state.isActive /\ state.currentIndex >= 1
          THEN /\ state' = [state EXCEPT !.currentIndex = state.currentIndex - 1]
               /\ timerId' = timerId
               /\ Len(emitted') = 1 /\ emitted'[1].ev = "progress"
               /\ emitted'[1].index = state.currentIndex - 1
          ELSE UNCHANGED ctlVars /\ emitted' = <<>>]_vars

\* a step forward was taken while the clock was playing, onto the last
\* candle of a three-candle buffer
C22_Witness ==
  /\ emitted # <<>> /\ emitted[1].by = "stepForward" /\ emitted[1].ev = "progress"
  /\ state.isActive /\ ~state.isPaused
  /\ state.totalCandles = 3 /\ state.currentIndex = 2

\* C23: stop() and dispose(), from any state, each disarm the timer, reset
\* the clock to the Inactive defaults and emit mode-change(false).
C23_StopAndDisposeReset ==
  [][(StopReplay \/ Dispose) =>
       /\ timerId' = 0
       /\ state' = DEFAULT_REPLAY_STATE
       /\ \E k \in 1..Len(emitted') :
            emitted'[k].ev = "mode" /\ emitted'[k].index = 0]_vars

\* C24: for a period whose unit has native spans, getStrategy returns the
\* requested span with multiplier 1 when the span is native, and otherwise
\* the largest native span of the same unit that divides the requested span,
\* with multiplier = span / native span; the native span is never 0 and
\* multiplier * native span is the requested span.
C24_StrategyLargestNativeDivisor ==
  (evaluation.fn = "getStrategy"
     /\ SUPPORTED_INTERVALS(evaluation.period.type) # {}) =>
    LET span == evaluation.period.span
        native == SUPPORTED_INTERVALS(evaluation.period.type)
        r == evaluation.result
    IN  /\ r.baseType = evaluation.period.type
        /\ r.interval = <<r.baseSpan, r.baseType>>
        /\ r.baseSpan \in native
        /\ r.baseSpan # 0
        /\ r.multiplier * r.baseSpan = span
        /\ IF span \in native
           THEN r.baseSpan = span /\ r.multiplier = 1
           ELSE \A b \in native : (span % b = 0) => b <= r.baseSpan

\* 7 minutes was mapped onto 1m x 7, and so evaluated
C24_Witness ==
  /\ evaluation.fn = "getStrategy"
  /\ evaluation.period = [type |-> "minute", span |-> 7]
  /\ evaluation.result.baseSpan = 1 /\ evaluation.result.multiplier = 7

\* C25: for a period whose unit has no native span at all (year),
\* getStrategy falls back to the smallest granularity with a multiplier such
\* that multiplier * base duration is the duration of the requested period
\* (durations in minutes; a year is 365 days).
C25_FallbackMultiplierScaled ==
  (evaluation.fn = "getStrategy"
     /\ SUPPORTED_INTERVALS(evaluation.period.type) = {}) =>
    LET minutesOf(t) == CASE t = "minute" -> 1
                          [] t = "hour" -> 60
                          [] t = "day" -> 24 * 60
                          [] t = "week" -> 7 * 24 * 60
                          [] t = "month" -> 30 * 24 * 60
                          [] t = "year" -> 365 * 24 * 60
        r == evaluation.result
    IN  r.multiplier * r.baseSpan * minutesOf(r.baseType)
          = evaluation.period.span * minutesOf(evaluation.period.type)

\* C26: for an ascending sequence of base candles and a multiplier m, the
\* aggregation puts each base candle in the bucket that starts at
\* floor(timestamp / (m * baseDuration)) * (m * baseDuration) and returns
\* one candle per non-empty bucket, in ascending order, whose open is the
\* first constituent's open, close the last constituent's close, high the
\* maximum high, low the minimum low, and volume and turnover the sums.
C26_AggregationBuckets ==
  evaluation.fn = "aggregate" =>
    LET in == evaluation.baseKlines
        out == evaluation.result
        d == evaluation.multiplier * evaluation.baseDuration
        bucketStart(i) == (in[i].timestamp \div d) * d
        members(b) == {i \in 1..Len(in) : bucketStart(i) = b}
        buckets == {bucketStart(i) : i \in 1..Len(in)}
        volumeUpTo[i \in 0..Len(in)] ==
          [b \in buckets |->
             IF i = 0 THEN 0
             ELSE volumeUpTo[i - 1][b]
                    + (IF bucketStart(i) = b THEN in[i].volume ELSE 0)]
        turnoverUpTo[i \in 0..Len(in)] ==
          [b \in buckets |->
             IF i = 0 THEN 0
             ELSE turnoverUpTo[i - 1][b]
                    + (IF bucketStart(i) = b THEN in[i].turnover ELSE 0)]
    IN  /\ Len(out) = Cardinality(buckets)
        /\ \A j \in 1..(Len(out) - 1) : out[j].timestamp < out[j + 1].timestamp
        /\ \A j \in 1..Len(out) :
             /\ out[j].timestamp \in buckets
             /\ LET ms == members(out[j].timestamp)
                    first == CHOOSE i \in ms : \A h \in ms : i <= h
                    last == CHOOSE i \in ms : \A h \in ms : h <= i
                IN  /\ out[j].open = in[first].open
                    /\ out[j].close = in[last].close
                    /\ \E i \in ms : out[j].high = in[i].high
                    /\ \A i \in ms : in[i].high <= out[j].high
                    /\ \E i \in ms : out[j].low = in[i].low
                    /\ \A i \in ms : out[j].low <= in[i].low
                    /\ out[j].volume = volumeUpTo[Len(in)][out[j].timestamp]
                    /\ out[j].turnover = turnoverUpTo[Len(in)][out[j].timestamp]

\* three 1m candles were aggregated with multiplier 2 into two buckets, the
\* first holding two of them
C26_Witness ==
  /\ evaluation.fn = "aggregate"
  /\ evaluation.multiplier = 2
  /\ Len(evaluation.baseKlines) = 3 /\ Len(evaluation.result) = 2
  /\ evaluation.result[1].volume = 3
  /\ evaluation.result[1].open # evaluation.result[1].close

\* C27: for a minute, hour or day period of span >= 1, the `to` that
\* adjustFromTo returns is the greatest multiple of span * unitMs that is
\* <= the input timestamp, and from = to - count * span * unitMs.
C27_ToIsSpanBoundary ==
  (evaluation.fn = "adjustFromTo"
     /\ evaluation.period.type \in {"minute", "hour", "day"}) =>
    LET step == evaluation.period.span * UnitMs(evaluation.period.type)
        from == evaluation.result[1]
        to == evaluation.result[2]
    IN  /\ to % step = 0
        /\ to <= evaluation.toTimestamp
        /\ evaluation.toTimestamp < to + step
        /\ from = to - evaluation.count * step

\* C28: for every period, timestamp and count >= 0, adjustFromTo applied
\* again to the `to` it returned gives the same `to`; from < to when
\* count > 0, and from = to exactly when count = 0.
C28_AlignmentIdempotentAndOrdered ==
  (evaluation.fn = "adjustFromTo" /\ evaluation.count >= 0) =>
    LET from == evaluation.result[1]
        to == evaluation.result[2]
    IN  /\ adjustFromTo(evaluation.period, to, evaluation.count)[2] = to
        /\ (evaluation.count > 0) => from < to
        /\ (from = to) <=> (evaluation.count = 0)

\* C29: adjustFromTo called with a negative count never returns a range
\* with from > to (it rejects the input or treats the count as zero).
C29_NegativeCountKeepsOrder ==
  (evaluation.fn = "adjustFromTo" /\ evaluation.count < 0) =>
    evaluation.result[1] <= evaluation.result[2]

\* C30: a replay backward request that arrives while isLoadingBackward or
\* suppressBackwardLoading is set is answered at once with an empty batch,
\* issues no provider fetch, and leaves the buffer, the offset, the
\* logical index and both flags as they were.
C30_BlockedBackwardIsInert ==
  [][ ( /\ GetBarsLocal("backward") \/ GetBarsBackwardFetch
        /\ replayMode /\ Len(replayData) > 0
        /\ isLoadingBackward \/ suppressBackwardLoading )
      => /\ lastCall'.type = "backward" /\ lastCall'.done
         /\ lastCall'.cbCount = 1
         /\ lastCall'.batch = <<>>
         /\ fetches' = fetches
         /\ UNCHANGED <<replayData, historicalOffset, replayIndex,
                        isLoadingBackward, suppressBackwardLoading>> ]_vars

\* a replay backward request was answered with an empty batch while
\* backward loading was suppressed, and no fetch is in flight
C30_Witness ==
  /\ lastCall.type = "backward" /\ lastCall.replay /\ lastCall.done
  /\ lastCall.settled = "none"
  /\ lastCall.batch = <<>>
  /\ replayMode /\ Len(replayData) > 0
  /\ suppressBackwardLoading /\ ~isLoadingBackward
  /\ Len(fetches) = 0

\* C31: when a backward fetch resolves, exactly the returned candles that
\* are strictly older than the buffer's oldest candle are prepended, in
\* ascending order; if there is at least one, replayOffset grows by their
\* number and onBackwardLoaded is invoked once with that number; if there
\* is none, the buffer and replayOffset stay as they are and
\* onBackwardLoaded is not invoked; either way the host gets an empty batch.
C31_BackwardResolutionPrependsOlderOnly ==
  [][\A i \in 1..MaxFetches, olderData \in OlderBatches :
       BackwardResolved(i, olderData) =>
         LET older == IF replayData = <<>> THEN <<>>
                      ELSE SelectSeq(olderData, LAMBDA d : d < replayData[1])
             k == Len(older)
             prefix == SubSeq(replayData', 1, k)
             occurrences(s, t) == Cardinality({j \in 1..Len(s) : s[j] = t})
         IN  /\ lastCall'.cbCount = 1 /\ lastCall'.batch = <<>>
             /\ IF k >= 1
                THEN /\ Len(replayData') = Len(replayData) + k
                     /\ SubSeq(replayData', k + 1, Len(replayData')) = replayData
                     /\ \A j \in 1..(k - 1) : prefix[j] <= prefix[j + 1]
                     /\ \A t \in Times :
                          occurrences(prefix, t) = occurrences(older, t)
                     /\ historicalOffset' = historicalOffset + k
                     /\ settled'.notified = <<k>>
                ELSE /\ replayData' = replayData
                     /\ historicalOffset' = historicalOffset
                     /\ settled'.notified = <<>>]_vars

\* a backward fetch resolved with one candle older than the buffer and one
\* that is not: the older one was prepended and reported, the other dropped
C31_Witness ==
  /\ settled.kind = "backward" /\ ~settled.failed
  /\ settled.k = 1 /\ settled.dropped = 1
  /\ settled.notified = <<1>>
  /\ historicalOffset >= 1
  /\ lastCall.batch = <<>>

\* C32: after the streaming aggregator has processed a live base candle,
\* whatever historical fetches reseeded the retained set in between, every
\* retained base candle lies in the bucket of that candle, and the
\* aggregate handed to the callback carries that bucket's start as its
\* timestamp.
C32_RetainedSetIsOneBucket ==
  (delivered # <<>> /\ delivered[1].multiplier # 1) =>
    LET aggDuration == delivered[1].aggDuration
        bucket == aggTimestampOf(delivered[1].base.timestamp, aggDuration)
    IN  /\ \A j \in 1..Len(currentBaseCandles) :
             aggTimestampOf(currentBaseCandles[j].timestamp, aggDuration)
               = bucket
        /\ delivered[1].candle.timestamp = bucket

\* a live candle of a new bucket arrived on a 2m subscription after candles
\* of the previous bucket had been retained: it is the only one retained
C32_Witness ==
  /\ delivered # <<>> /\ delivered[1].multiplier = 2
  /\ delivered[1].base.timestamp = BaseTime + 2 * MinuteMs
  /\ currentBaseCandles = <<delivered[1].base>>
  /\ Len(received) = 3

\* C37: after any sequence of live base-candle updates that follows a
\* historical fetch or a fresh subscription, the aggregate the streaming
\* path emits equals the batch aggregation of the latest version of every
\* base candle of that bucket.
C37_StreamingEqualsBatch ==
  (delivered # <<>> /\ delivered[1].multiplier # 1) =>
    LET aggDuration == delivered[1].aggDuration
        bucket == aggTimestampOf(delivered[1].base.timestamp, aggDuration)
        ofBucket == SelectSeq(received, LAMBDA k :
                      aggTimestampOf(k.timestamp, aggDuration) = bucket)
    IN  aggregateLoop(ofBucket, aggDuration, <<>>, <<>>)
          = <<delivered[1].candle>>

\* C33: in every reachable state the playback timer is armed if and only
\* if the clock is Active and not paused; in particular after start() in
\* any state, and after stop() or dispose(), no tick moves the index until
\* play() is called.
C33_TimerArmedIffPlaying ==
  (timerId # 0) <=> (state.isActive /\ ~state.isPaused)

\* C34: once the component has handled a progress emission, the Replay
\* Clock's currentIndex equals the Data Bridge's visibleEndIndex
\* (replayOffset + logical index), after any sequence of ticks, steps,
\* seeks and backward prepends.
C34_ClockAndBridgeAgree ==
  (state.isActive /\ replayMode) =>
    state.currentIndex = historicalOffset + replayIndex

\* C35: once the user has left replay, replay stays inactive in the Replay
\* Clock and in the Data Bridge until the user activates it again: the
\* only step that makes it active is the resolution of a startReplay fetch,
\* never that of a date-change or period-change fetch issued before the
\* exit.
C35_ExitedReplayStaysInactive ==
  [][(/\ ~state.isActive /\ ~replayMode
      /\ state'.isActive \/ replayMode') => settled'.kind = "start"]_vars

\* C36: when every provider fetch eventually settles and every scheduled
\* timeout eventually fires, isLoadingBackward and suppressBackwardLoading,
\* once set, each become false again: backward paging is never locked out
\* for good, whether the fetch resolves with data, resolves empty or
\* rejects.
C36_BackwardGuardsAreReleased ==
  /\ isLoadingBackward ~> ~isLoadingBackward
  /\ suppressBackwardLoading ~> ~suppressBackwardLoading

\* a backward fetch has prepended candles, both timeouts have fired, and
\* both guards are down again
C36_Witness ==
  /\ replayMode /\ historicalOffset >= 1
  /\ fetches = <<>> /\ releaseTimers = 0 /\ suppressTimers = 0
  /\ ~isLoadingBackward /\ ~suppressBackwardLoading

\* C38: after MarketDataService.disconnect(), until connect, subscribe or
\* subscribeAll is called again, no WebSocket is being opened or open and no
\* reconnect timer is pending, also once the close event of the socket that
\* disconnect() closed has been delivered.
C38_DisconnectedStaysDisconnected ==
  disconnected =>
    /\ ~timerPending
    /\ \A slot \in 1..MaxSockets : socketState[slot] \notin {"connecting", "open"}

\* C39: the paused flag the replay bar shows (replayState.isPaused of the
\* component) equals the Replay Clock's isPaused after every event,
\* including the automatic pause when playback reaches the end of the
\* buffer.
C39_BarShowsClockPause ==
  replayActive => (replayState.isPaused = state.isPaused)

====
